---- MODULE Spec2Model ----
(***************************************************************************)
(* Model of the transaction sampler of the prophit backend                 *)
(* (backend/app/services/sampling.py): TransactionSampler.sample and its   *)
(* helpers to_compact_string, _stratified_sample and _enforce_budget.      *)
(*                                                                         *)
(* A Python list of Transaction objects is modelled as a sequence of       *)
(* references: a reference is the index (slot) of the object in the input  *)
(* list `transactions`, so two references are the same object exactly when *)
(* they are the same slot, while two objects are == (pydantic field        *)
(* equality) when their records are equal.  Timestamps are whole days of   *)
(* January 2024 and amounts are floats with a zero fraction.               *)
(*                                                                         *)
(* Spec      one call of sample() on every list of up to MaxTx             *)
(*           transactions, under every configuration of the choice sets    *)
(* DetSpec   repeated calls on the same list while the clock advances      *)
(* StratSpec _stratified_sample called on its own                          *)
(* GroupedSpec  the same on lists with several transactions per category   *)
(*                                                                         *)
(* The services around the sampler are modelled after it:                  *)
(*                                                                         *)
(* PipelineSpec          run_summarization of app/main.py: the fan-out to  *)
(*                       the models, the judge, the save and the response  *)
(* JudgeSpec             JudgeService.judge_summaries called on its own    *)
(* AggregationSpec       FeatureExtractor.extract_aggregations             *)
(* BalanceSpec           FeatureExtractor.extract_balance_health           *)
(* TransactionStoreSpec  TransactionStore.add_transactions                 *)
(* SummaryStoreSpec      SummaryStore.save_summary and get_latest_summary  *)
(* TimestampSpec         parse_timestamp of app/utils/timestamp.py         *)
(* UploadSpec            upload_transactions of app/main.py on a CSV file  *)
(* OpenBankingSpec       upload_openbanking_transactions of app/main.py    *)
(***************************************************************************)
EXTENDS Integers, Sequences, FiniteSets, TLC

VARIABLES
    transactions,        \* the list handed to sample()
    top_x,               \* self.top_x
    stratified_n,        \* self.stratified_n
    recency_days,        \* self.recency_days
    target_char_budget,  \* self.target_char_budget
    as_of,               \* the as_of argument (NoDate: not given)
    now,                 \* the wall clock read by datetime.now(timezone.utc)
    pc,                  \* position of the call
    recency_cutoff,      \* local of sample()
    recent,              \* local of sample(): the Recent pool
    top_x_txs,           \* local of sample(): the Top-X pool
    stratified,          \* local of sample(): the Stratified pool
    sampled_list,        \* local of sample(): the sorted union of the pools
    priority,            \* locals priority_1 .. priority_4 of _enforce_budget
    pass,                \* which of the four loops of _enforce_budget runs (5: none left)
    idx,                 \* position of that loop in its priority list
    result,              \* local of _enforce_budget, then the returned sequence
    stats,               \* the returned stats dict
    calls,               \* number of completed calls of sample()
    prev,                \* what the previous call returned
    llm_models,          \* request.llm_models of run_summarization
    rpc,                 \* position of run_summarization
    tasks,               \* per horizon, the fan-out tasks handed to asyncio.gather
    daily_summaries,     \* local of run_summarization
    monthly_summaries,   \* local of run_summarization
    daily_judge,         \* local of run_summarization
    monthly_judge,       \* local of run_summarization
    http_status,         \* status of the response of run_summarization
    jpc,                 \* position of JudgeService.judge_summaries
    judge_args,          \* the summaries argument of judge_summaries
    judge_model_calls,   \* judge-model calls issued so far
    judge_output,        \* what judge_summaries returned or raised
    aggregations,        \* what extract_aggregations returned
    balance_health,      \* what extract_balance_health returned
    tx_rows,             \* table transactions, in rowid order
    last_added,          \* the argument of the latest add_transactions call
    summary_rows,        \* table summaries, in rowid order
    saves,               \* the save_summary calls made so far, in order
    uuid_count,          \* uuid4 values drawn so far
    ts_string,           \* the argument s of parse_timestamp
    dateutil_available,  \* whether `from dateutil import parser` succeeds
    ts_result,           \* what parse_timestamp returned or raised
    upload_body,         \* the rows or statements of the latest upload request
    upload_response      \* its status and transaction_count

vars == <<transactions, top_x, stratified_n, recency_days, target_char_budget,
          as_of, now, pc, recency_cutoff, recent, top_x_txs, stratified,
          sampled_list, priority, pass, idx, result, stats, calls, prev,
          llm_models, rpc, tasks, daily_summaries, monthly_summaries, daily_judge,
          monthly_judge, http_status, jpc, judge_args, judge_model_calls,
          judge_output, aggregations, balance_health, tx_rows, last_added,
          summary_rows, saves, uuid_count, ts_string, dateutil_available, ts_result,
          upload_body, upload_response>>

-----------------------------------------------------------------------------
(* Bounds of the model *)

MaxTx == 2          \* longest input list of the sampler runs
MaxCalls == 2       \* calls of sample() on one list in the repeated runs
MaxNow == 3         \* the day at which the clock of the repeated runs stops
MaxStratLen == 4    \* longest input list of the _stratified_sample runs
MaxStratN == 4      \* largest n of the _stratified_sample runs

(* Python's None for an Optional[str], and for an Optional[datetime] *)
None == "None"
NoDate == 0

(* The fields of the transactions the sampler runs are fed: two days, a short
   and a long amount (encoded "5.0" and "-20.0"), with and without an id, so
   that an encoded line has 21 or 23 characters *)
Ids == {None, "a"}
Days == {1, 2}
Amounts == {-20, 5}

Transaction ==
    [id : Ids, timestamp : Days, amount : Amounts, currency : {"USD"},
     description : {"x"}, category : {None}]

(* The sampler configurations and the as_of arguments of the runs; the clock
   stands at day 2 *)
TopXChoices == {0, 1, 50}
StratifiedNChoices == {0, 1, 80}
BudgetChoices == {0, 22, 45, 20000}
AsOfChoices == {NoDate, 3, 4}

RECURSIVE SeqsUpTo(_, _)
SeqsUpTo(S, n) ==
    IF n = 0 THEN {<< >>}
    ELSE LET shorter == SeqsUpTo(S, n - 1)
         IN  shorter \cup {Append(s, x) : s \in {t \in shorter : Len(t) = n - 1}, x \in S}

-----------------------------------------------------------------------------
(* bool(s) of an Optional[str] *)
Truthy(s) == s # None /\ s # ""

Abs(a) == IF a < 0 THEN -a ELSE a
Min(a, b) == IF a < b THEN a ELSE b
Max(a, b) == IF a > b THEN a ELSE b

Range(s) == {s[i] : i \in DOMAIN s}

(* Python's stable sort of a list of references, ascending in key[reference] *)
SortBy(s, key) ==
    LET before(i, j) == key[s[i]] < key[s[j]] \/ (key[s[i]] = key[s[j]] /\ i < j)
        rank(i) == Cardinality({j \in DOMAIN s : before(j, i)})
    IN  [k \in DOMAIN s |-> s[CHOOSE i \in DOMAIN s : rank(i) = k - 1]]

(* every step-th element of a list: [l[i] for i in range(0, len(l), step)] *)
Stride(l, step) ==
    [k \in 1 .. ((Len(l) + step - 1) \div step) |-> l[(k - 1) * step + 1]]

-----------------------------------------------------------------------------
(* to_compact_string *)

(* tx.timestamp.strftime("%Y-%m-%d") *)
DateStr(ts) == "2024-01-" \o (IF ts < 10 THEN "0" ELSE "") \o ToString(ts)

(* str(tx.amount) of a float with a zero fraction *)
AmountStr(a) == ToString(a) \o ".0"

CompactLine(tx) ==
    DateStr(tx.timestamp) \o "|" \o AmountStr(tx.amount) \o "|"
        \o (IF tx.currency # "" THEN tx.currency ELSE "USD") \o "|"
        \o (IF Truthy(tx.category) THEN tx.category ELSE "") \o "|"
        \o (IF tx.description # "" THEN tx.description ELSE "")

RECURSIVE JoinLines(_)
JoinLines(lines) ==
    IF lines = << >> THEN ""
    ELSE IF Len(lines) = 1 THEN lines[1]
    ELSE lines[1] \o "\n" \o JoinLines(Tail(lines))

(* to_compact_string of the objects that the references refs point to *)
to_compact_string(refs) ==
    JoinLines([k \in DOMAIN refs |-> CompactLine(transactions[refs[k]])])

-----------------------------------------------------------------------------
(* _stratified_sample *)

(* list(by_category.keys()): the categories in order of first appearance *)
CategoryKeys(txs) ==
    LET cat(k) == transactions[txs[k]].category
        first == SelectSeq([k \in DOMAIN txs |-> k],
                           LAMBDA k : Truthy(cat(k)) /\ \A j \in 1 .. (k - 1) : cat(j) # cat(k))
    IN  [k \in DOMAIN first |-> cat(first[k])]

ByTimestamp(txs) == SortBy(txs, [r \in Range(txs) |-> transactions[r].timestamp])

(* for i in range(0, len(txs), step): if len(sampled) < n: sampled.append(txs[i]) *)
AppendStride(sampled, txs, step, n) ==
    LET picks == Stride(txs, step)
        room == Max(0, n - Len(sampled))
    IN  sampled \o SubSeq(picks, 1, Min(Len(picks), room))

(* the loop over by_category.items() *)
RECURSIVE SampleCategories(_, _, _, _, _)
SampleCategories(categories, sampled, txs, samples_per_category, n) ==
    IF categories = << >> THEN sampled
    ELSE LET group == ByTimestamp(SelectSeq(txs,
                          LAMBDA r : transactions[r].category = Head(categories)))
             step == Max(1, Len(group) \div samples_per_category)
         IN  SampleCategories(Tail(categories), AppendStride(sampled, group, step, n),
                              txs, samples_per_category, n)

(* lines 266-301: the body of _stratified_sample after the short-circuit *)
StratifiedSelect(txs, n) ==
    LET categories == CategoryKeys(txs)
        uncategorized == ByTimestamp(SelectSeq(txs,
                             LAMBDA r : ~Truthy(transactions[r].category)))
        samples_per_category ==
            IF categories # << >> THEN Max(1, n \div (Len(categories) + 1)) ELSE n
        sampled == SampleCategories(categories, << >>, txs, samples_per_category, n)
        all == IF uncategorized # << >> /\ Len(sampled) < n
               THEN AppendStride(sampled, uncategorized,
                                 Max(1, Len(uncategorized) \div (n - Len(sampled))), n)
               ELSE sampled
    IN  SubSeq(all, 1, Min(n, Len(all)))

stratified_sample_strict(txs, n) ==
    IF Len(txs) < n THEN txs ELSE StratifiedSelect(txs, n)

stratified_sample(txs, n) ==
    IF Len(txs) <= n THEN txs ELSE StratifiedSelect(txs, n)

-----------------------------------------------------------------------------
(* sample: the three pools and their union *)

AllRefs == [i \in 1 .. Len(transactions) |-> i]

(* tx.id or id(tx): the id when it is a non-empty string, else the object's address *)
TxKey(r) ==
    IF Truthy(transactions[r].id)
    THEN [id |-> transactions[r].id, obj |-> 0]
    ELSE [id |-> None, obj |-> r]

ReferenceDateFromClock == now

(* reference_date = as_of if as_of else datetime.now(timezone.utc) *)
ReferenceDate == IF as_of # NoDate THEN as_of ELSE now

RecentPool(cutoff) ==
    SelectSeq(AllRefs, LAMBDA r : transactions[r].timestamp >= cutoff)

TopXPoolAscending ==
    LET sorted_by_amount == SortBy(AllRefs, [r \in Range(AllRefs) |-> Abs(transactions[r].amount)])
    IN  SubSeq(sorted_by_amount, 1, Min(top_x, Len(sorted_by_amount)))

(* a sort by descending |amount| that is not stable: of two equal amounts the
   later of the input comes first *)
TopXPoolLaterOnTies ==
    LET backwards == [i \in DOMAIN AllRefs |-> AllRefs[Len(AllRefs) + 1 - i]]
        sorted_by_amount == SortBy(backwards, [r \in Range(AllRefs) |-> 0 - Abs(transactions[r].amount)])
    IN  SubSeq(sorted_by_amount, 1, Min(top_x, Len(sorted_by_amount)))

(* sorted(windowed, key=lambda tx: abs(tx.amount), reverse=True)[:self.top_x] *)
TopXPool ==
    LET sorted_by_amount == SortBy(AllRefs, [r \in Range(AllRefs) |-> 0 - Abs(transactions[r].amount)])
    IN  SubSeq(sorted_by_amount, 1, Min(top_x, Len(sorted_by_amount)))

(* one of the three loops of lines 116-134 over a pool *)
RECURSIVE AddPool(_, _)
AddPool(acc, pool) ==
    IF pool = << >> THEN acc
    ELSE LET tx_id == TxKey(Head(pool))
         IN  IF tx_id \notin acc.sampled_set
             THEN AddPool([sampled_set |-> acc.sampled_set \cup {tx_id},
                           sampled_list |-> Append(acc.sampled_list, Head(pool))],
                          Tail(pool))
             ELSE AddPool(acc, Tail(pool))

(* the loops in another order: Top-X before Recent *)
UnionTopXFirst(rec, top, strat) ==
    AddPool(AddPool(AddPool([sampled_set |-> {}, sampled_list |-> << >>], top), rec),
            strat).sampled_list

UnionOfPools(rec, top, strat) ==
    AddPool(AddPool(AddPool([sampled_set |-> {}, sampled_list |-> << >>], rec), top),
            strat).sampled_list

-----------------------------------------------------------------------------
(* _enforce_budget *)

KeySet(pool) == {TxKey(pool[k]) : k \in DOMAIN pool}

(* lines 203-212: the tier of a transaction of sampled_list *)
Tier(r, rec, top, strat) ==
    IF TxKey(r) \in KeySet(rec) THEN 1
    ELSE IF TxKey(r) \in KeySet(top) THEN 2
    ELSE IF TxKey(r) \in KeySet(strat) THEN 3
    ELSE 4

Classify(list, rec, top, strat) ==
    [t \in 1 .. 4 |-> SelectSeq(list, LAMBDA r : Tier(r, rec, top, strat) = t)]

would_fit_alone(res, r) ==
    Len(to_compact_string(<<r>>)) <= target_char_budget

(* the comparison with < in the place of <= *)
would_fit_below(res, r) ==
    Len(to_compact_string(Append(res, r))) < target_char_budget

would_fit(res, r) ==
    Len(to_compact_string(Append(res, r))) <= target_char_budget

(* the loop that runs after loop p has ended: the next one that has a candidate *)
RECURSIVE NextPass(_, _)
NextPass(prio, p) ==
    IF p >= 4 THEN 5
    ELSE IF prio[p + 1] # << >> THEN p + 1
    ELSE NextPass(prio, p + 1)

-----------------------------------------------------------------------------
(* sample: the stats record *)

(* tx in pool: the list holds the same object or one that is == to it *)
InList(r, pool) == \E k \in DOMAIN pool : transactions[pool[k]] = transactions[r]

CountIn(res, pool) == Cardinality({k \in DOMAIN res : InList(res[k], pool)})

CharUsedBeforeTrim(res) == Len(to_compact_string(sampled_list))

(* char_used = len(self.to_compact_string(sampled_list)), after _enforce_budget *)
CharUsed(res) == Len(to_compact_string(res))

Timestamps == {transactions[i].timestamp : i \in DOMAIN transactions}

EmptyStats ==
    [total_transactions |-> 0,
     sampled_count      |-> 0,
     date_range_start   |-> NoDate,
     date_range_end     |-> NoDate,
     top_x_count        |-> 0,
     stratified_count   |-> 0,
     recency_count      |-> 0]

Stats(res) ==
    [total_transactions |-> Len(transactions),
     sampled_count      |-> Len(res),
     date_range_start   |-> CHOOSE t \in Timestamps : \A u \in Timestamps : t <= u,
     date_range_end     |-> CHOOSE t \in Timestamps : \A u \in Timestamps : t >= u,
     top_x_count        |-> CountIn(res, top_x_txs),
     stratified_count   |-> CountIn(res, stratified),
     recency_count      |-> Len(recent),
     char_used          |-> CharUsed(res)]

-----------------------------------------------------------------------------
(* The calls of sample() *)

config == <<transactions, top_x, stratified_n, recency_days, target_char_budget, as_of>>
locals == <<recency_cutoff, recent, top_x_txs, stratified, sampled_list, priority,
            pass, idx>>

(* The state of the other services of the backend: the summarization pipeline,
   the judge, the feature extractor, the two stores and the timestamp parser *)
pipeline == <<llm_models, rpc, tasks, daily_summaries, monthly_summaries, daily_judge,
              monthly_judge, http_status>>
judge == <<jpc, judge_args, judge_model_calls, judge_output>>
features == <<aggregations, balance_health>>
stores == <<tx_rows, last_added, summary_rows, saves, uuid_count>>
parser == <<ts_string, dateutil_available, ts_result>>
uploads == <<upload_body, upload_response>>
services == <<pipeline, judge, features, stores, parser, uploads>>

(* No request is being served (no response sent: status 0) and no judge call
   is open *)
NoResponse == 0

PipelineIdle ==
    /\ llm_models = << >>
    /\ rpc = "idle"
    /\ tasks = << >>
    /\ daily_summaries = << >>
    /\ monthly_summaries = << >>
    /\ daily_judge = None
    /\ monthly_judge = None
    /\ http_status = NoResponse

JudgeIdle ==
    /\ jpc = "idle"
    /\ judge_args = << >>
    /\ judge_model_calls = 0
    /\ judge_output = None

FeaturesIdle ==
    /\ aggregations = None
    /\ balance_health = None

(* Both tables are empty *)
StoresEmpty ==
    /\ tx_rows = << >>
    /\ last_added = << >>
    /\ summary_rows = << >>
    /\ saves = << >>
    /\ uuid_count = 0

ParserIdle ==
    /\ ts_string = << >>
    /\ dateutil_available = FALSE
    /\ ts_result = << >>

(* No upload request was made *)
UploadsIdle ==
    /\ upload_body = << >>
    /\ upload_response = << >>

ServicesIdle ==
    /\ PipelineIdle
    /\ JudgeIdle
    /\ FeaturesIdle
    /\ StoresEmpty
    /\ ParserIdle
    /\ UploadsIdle

NoLocals ==
    /\ recency_cutoff = NoDate
    /\ recent = << >>
    /\ top_x_txs = << >>
    /\ stratified = << >>
    /\ sampled_list = << >>
    /\ priority = [t \in 1 .. 4 |-> << >>]
    /\ pass = 0
    /\ idx = 0

(* The sampler is not in use *)
sampler == <<config, pc, locals, result, stats, calls, prev>>

SamplerIdle ==
    /\ transactions = << >>
    /\ top_x = 0
    /\ stratified_n = 0
    /\ recency_days = 0
    /\ target_char_budget = 0
    /\ as_of = NoDate
    /\ pc = "idle"
    /\ NoLocals
    /\ result = << >>
    /\ stats = << >>
    /\ calls = 0
    /\ prev = << >>

(* A sampler is constructed and sample() is about to be called on a list *)
Init ==
    /\ transactions \in SeqsUpTo(Transaction, MaxTx)
    /\ top_x \in TopXChoices
    /\ stratified_n \in StratifiedNChoices
    /\ recency_days = 1
    /\ target_char_budget \in BudgetChoices
    /\ as_of \in AsOfChoices
    /\ now = 2
    /\ pc = "start"
    /\ NoLocals
    /\ result = << >>
    /\ stats = << >>
    /\ calls = 0
    /\ prev = << >>
    /\ ServicesIdle

(* lines 70-79: the empty input *)
SampleEmpty ==
    /\ pc = "start"
    /\ transactions = << >>
    /\ result' = << >>
    /\ stats' = EmptyStats
    /\ pc' = "done"
    /\ calls' = calls + 1
    /\ UNCHANGED <<services, config, now, locals, prev>>

(* lines 95-146 and 192-215: the pools, their sorted union, the four tiers *)
SamplePools ==
    /\ pc = "start"
    /\ transactions # << >>
    /\ recency_cutoff' = ReferenceDate - recency_days
    /\ recent' = RecentPool(recency_cutoff')
    /\ top_x_txs' = TopXPool
    /\ stratified' = stratified_sample(AllRefs, stratified_n)
    /\ sampled_list' = ByTimestamp(UnionOfPools(recent', top_x_txs', stratified'))
    /\ priority' = Classify(sampled_list', recent', top_x_txs', stratified')
    /\ pass' = NextPass(priority', 0)
    /\ idx' = 1
    /\ result' = << >>
    /\ pc' = "enforce"
    /\ UNCHANGED <<services, config, now, stats, calls, prev>>

(* lines 224-250: one iteration of a loop, the candidate fits *)
EnforceAdmit ==
    /\ pc = "enforce"
    /\ pass <= 4
    /\ would_fit(result, priority[pass][idx])
    /\ result' = Append(result, priority[pass][idx])
    /\ IF idx < Len(priority[pass])
       THEN idx' = idx + 1 /\ pass' = pass
       ELSE idx' = 1 /\ pass' = NextPass(priority, pass)
    /\ UNCHANGED <<services, config, now, pc, recency_cutoff, recent, top_x_txs, stratified,
                   sampled_list, priority, stats, calls, prev>>

(* the same iteration with `continue` in the place of `break`: the loop goes on
   to the next candidate of the pass *)
EnforceSkip ==
    /\ pc = "enforce"
    /\ pass <= 4
    /\ ~would_fit(result, priority[pass][idx])
    /\ IF idx < Len(priority[pass])
       THEN idx' = idx + 1 /\ pass' = pass
       ELSE idx' = 1 /\ pass' = NextPass(priority, pass)
    /\ UNCHANGED <<services, config, now, pc, recency_cutoff, recent, top_x_txs, stratified,
                   sampled_list, priority, result, stats, calls, prev>>

(* lines 224-250: one iteration of a loop, the candidate does not fit: break *)
EnforceBreak ==
    /\ pc = "enforce"
    /\ pass <= 4
    /\ ~would_fit(result, priority[pass][idx])
    /\ idx' = 1
    /\ pass' = NextPass(priority, pass)
    /\ UNCHANGED <<services, config, now, pc, recency_cutoff, recent, top_x_txs, stratified,
                   sampled_list, priority, result, stats, calls, prev>>

(* lines 148-163: the stats and the return *)
SampleReturn ==
    /\ pc = "enforce"
    /\ pass = 5
    /\ stats' = Stats(result)
    /\ pc' = "done"
    /\ calls' = calls + 1
    /\ UNCHANGED <<services, config, now, locals, result, prev>>

Next ==
    \/ SampleEmpty
    \/ SamplePools
    \/ EnforceAdmit
    \/ EnforceBreak
    \/ SampleReturn

Spec == Init /\ [][Next]_vars

-----------------------------------------------------------------------------
(* Repeated calls: sample() is called again on the same list by the same
   sampler with the same as_of, while the clock goes on *)

DetInit ==
    /\ transactions \in SeqsUpTo(Transaction, MaxTx)
    /\ top_x \in {1, 50}
    /\ stratified_n = 1
    /\ recency_days = 1
    /\ target_char_budget \in {22, 20000}
    /\ as_of \in {NoDate, 3}
    /\ now = 2
    /\ pc = "start"
    /\ NoLocals
    /\ result = << >>
    /\ stats = << >>
    /\ calls = 0
    /\ prev = << >>
    /\ ServicesIdle

(* time passes between two calls *)
Tick ==
    /\ pc \in {"start", "done"}
    /\ now < MaxNow
    /\ now' = now + 1
    /\ UNCHANGED <<services, config, pc, locals, result, stats, calls, prev>>

(* the caller keeps what the call returned and calls sample() again *)
SampleAgain ==
    /\ pc = "done"
    /\ calls < MaxCalls
    /\ prev' = [result |-> result, stats |-> stats, clock |-> now]
    /\ pc' = "start"
    /\ recency_cutoff' = NoDate
    /\ recent' = << >>
    /\ top_x_txs' = << >>
    /\ stratified' = << >>
    /\ sampled_list' = << >>
    /\ priority' = [t \in 1 .. 4 |-> << >>]
    /\ pass' = 0
    /\ idx' = 0
    /\ result' = << >>
    /\ stats' = << >>
    /\ UNCHANGED <<services, config, now, calls>>

DetNext ==
    \/ Next
    \/ Tick
    \/ SampleAgain

DetSpec == DetInit /\ [][DetNext]_vars

-----------------------------------------------------------------------------
(* _stratified_sample called on its own, on lists that differ in category and
   day only *)

StratTransaction ==
    [id : {None}, timestamp : Days, amount : {5}, currency : {"USD"},
     description : {"x"}, category : {None, "F", "G"}]

StratInit ==
    /\ transactions \in SeqsUpTo(StratTransaction, MaxStratLen)
    /\ stratified_n \in 0 .. MaxStratN
    /\ top_x = 0
    /\ recency_days = 0
    /\ target_char_budget = 0
    /\ as_of = NoDate
    /\ now = 2
    /\ pc = "stratify"
    /\ NoLocals
    /\ result = << >>
    /\ stats = << >>
    /\ calls = 0
    /\ prev = << >>
    /\ ServicesIdle

StratifiedSampleCall ==
    /\ pc = "stratify"
    /\ stratified' = stratified_sample(AllRefs, stratified_n)
    /\ pc' = "stratified"
    /\ UNCHANGED <<services, config, now, recency_cutoff, recent, top_x_txs, sampled_list,
                   priority, pass, idx, result, stats, calls, prev>>

StratNext == StratifiedSampleCall

StratSpec == StratInit /\ [][StratNext]_vars

-----------------------------------------------------------------------------
(* _stratified_sample on lists with several transactions in each category
   group: the group sizes are drawn, the transactions of a group are alike *)

MaxPerGroup == 3    \* most transactions of one category group
MaxGroupN == 6      \* largest n of these runs

CategoryBlock(category, size) ==
    [i \in 1 .. size |->
        [id |-> None, timestamp |-> 1, amount |-> 5, currency |-> "USD",
         description |-> "x", category |-> category]]

GroupedInit ==
    /\ \E f, g, u \in 0 .. MaxPerGroup :
           transactions \in {CategoryBlock("F", f) \o CategoryBlock("G", g) \o CategoryBlock(None, u),
                             CategoryBlock(None, u) \o CategoryBlock("G", g) \o CategoryBlock("F", f)}
    /\ stratified_n \in 0 .. MaxGroupN
    /\ top_x = 0
    /\ recency_days = 0
    /\ target_char_budget = 0
    /\ as_of = NoDate
    /\ now = 2
    /\ pc = "stratify"
    /\ NoLocals
    /\ result = << >>
    /\ stats = << >>
    /\ calls = 0
    /\ prev = << >>
    /\ ServicesIdle

GroupedSpec == GroupedInit /\ [][StratNext]_vars

-----------------------------------------------------------------------------
(* The summarization pipeline (backend/app/main.py run_summarization from the
   fan-out on, backend/app/services/summarization.py, services/judge.py).

   PipelineSpec   one request: the daily and the monthly fan-out, the two
                  judge calls, the two saves and the response
   JudgeSpec      judge_summaries called on its own on every list of up to
                  MaxModels candidates *)

MaxModels == 2      \* longest request.llm_models, most candidates handed to the judge

ModelIds == {"mock:gpt", "mock:claude"}
Horizons == {"daily", "monthly"}
RequestUser == "A"

(* The object an `except Exception` clause catches: adapters raise RuntimeError
   (ValueError from their constructors), judge_summaries raises ValueError *)
RuntimeError == [exception |-> "RuntimeError"]
ValueError == [exception |-> "ValueError"]

(* isinstance(result, Exception) *)
IsException(value) == "exception" \in DOMAIN value

(* MockLLMAdapter.MODEL_RESPONSES: the confidence of a model, in percent *)
Confidence(model_id) == IF model_id = "mock:gpt" THEN 85 ELSE 78

(* What adapter.generate_summary(prompt, summary_type) of a model returns *)
SummaryResponse(model_id, summary_type) ==
    [model_id |-> model_id, summary_type |-> summary_type,
     confidence |-> Confidence(model_id)]

(* tasks = [generate_one(model_id) for model_id in llm_model_ids] *)
NotSettled == [pending |-> TRUE]

CreateTasks(llm_model_ids) ==
    [i \in 1 .. Len(llm_model_ids) |-> [state |-> "pending", value |-> NotSettled]]

(* gather resumes its caller when every task has returned or raised *)
SettledOnce(ts) == \E i \in 1 .. Len(ts) : ts[i].state # "pending"

Settled(ts) == \A i \in 1 .. Len(ts) : ts[i].state # "pending"

(* asyncio.gather with return_exceptions=True: with return_exceptions the
   awaited value is the list of results and exceptions in task order, without
   it the first exception propagates to the awaiting coroutine *)
return_exceptions_off == FALSE
return_exceptions == TRUE

GatherRaises(ts) ==
    ~return_exceptions /\ \E i \in 1 .. Len(ts) : ts[i].state = "raised"

Gather(ts) == [i \in 1 .. Len(ts) |-> ts[i].value]

(* the loop over the gathered results *)
valid_summaries_keep_all(summaries) ==
    summaries

RECURSIVE valid_summaries(_)
valid_summaries(summaries) ==
    IF summaries = << >> THEN << >>
    ELSE (IF IsException(Head(summaries)) THEN << >> ELSE <<Head(summaries)>>)
         \o valid_summaries(Tail(summaries))

(* The horizon whose generate_summaries call run_summarization is in *)
Horizon == IF rpc \in {"generate_daily", "gather_daily"} THEN "daily" ELSE "monthly"

(* json.dumps(judge_output.model_dump(), default=str): the JSON text, as the
   list of its values in field order, and JudgeOutput built from json.loads(text) *)
DumpSummary(summary) == <<summary.model_id, summary.summary_type, summary.confidence>>

LoadSummary(text) ==
    [model_id |-> text[1], summary_type |-> text[2], confidence |-> text[3]]

DumpJudgeOutput(output) ==
    <<output.winning_model_id, output.ranked_models, output.reasons,
      DumpSummary(output.final_summary)>>

LoadJudgeOutput(text) ==
    [winning_model_id |-> text[1], ranked_models |-> text[2], reasons |-> text[3],
     final_summary |-> LoadSummary(text[4])]

(* str(uuid.uuid4()): the n-th value drawn *)
Uuid(n) == "uuid-" \o ToString(n)

(* datetime.utcnow().isoformat() when the clock shows t half seconds: the text,
   as the list of its fields, ends with the fraction only when that is not
   zero ("...:01" and "...:01.5") *)
UtcNowIso(t) == <<t \div 2>> \o (IF t % 2 = 0 THEN << >> ELSE <<5>>)

(* SummaryStore.save_summary: the table after the INSERT *)
save_summary(rows, uuid, user_id, summary_type, output, utcnow) ==
    Append(rows, [id |-> uuid, user_id |-> user_id, summary_type |-> summary_type,
                  judge_output |-> DumpJudgeOutput(output), created_at |-> utcnow])

(* A request has been validated, sampled and turned into the two prompts *)
PipelineInit ==
    /\ llm_models \in SeqsUpTo(ModelIds, MaxModels)
    /\ rpc = "generate_daily"
    /\ tasks = [h \in Horizons |-> << >>]
    /\ daily_summaries = << >>
    /\ monthly_summaries = << >>
    /\ daily_judge = None
    /\ monthly_judge = None
    /\ http_status = NoResponse
    /\ now = 2
    /\ JudgeIdle
    /\ FeaturesIdle
    /\ StoresEmpty
    /\ ParserIdle
    /\ UploadsIdle
    /\ SamplerIdle

(* generate_summaries is called and creates one task per model id *)
GenerateSummaries ==
    /\ rpc \in {"generate_daily", "generate_monthly"}
    /\ tasks' = [tasks EXCEPT ![Horizon] = CreateTasks(llm_models)]
    /\ rpc' = IF rpc = "generate_daily" THEN "gather_daily" ELSE "gather_monthly"
    /\ UNCHANGED <<llm_models, daily_summaries, monthly_summaries, daily_judge,
                   monthly_judge, http_status, judge, features, stores, parser, uploads,
                   sampler, now>>

(* generate_one: the adapter of task i returns its summary *)
TaskReturns(i) ==
    /\ rpc \in {"gather_daily", "gather_monthly"}
    /\ i \in 1 .. Len(tasks[Horizon])
    /\ tasks[Horizon][i].state = "pending"
    /\ tasks' = [tasks EXCEPT ![Horizon][i] =
                    [state |-> "returned",
                     value |-> SummaryResponse(llm_models[i], Horizon)]]
    /\ UNCHANGED <<llm_models, rpc, daily_summaries, monthly_summaries, daily_judge,
                   monthly_judge, http_status, judge, features, stores, parser, uploads,
                   sampler, now>>

(* generate_one: get_llm_adapter or the adapter of task i raises *)
TaskRaises(i) ==
    /\ rpc \in {"gather_daily", "gather_monthly"}
    /\ i \in 1 .. Len(tasks[Horizon])
    /\ tasks[Horizon][i].state = "pending"
    /\ tasks' = [tasks EXCEPT ![Horizon][i] = [state |-> "raised", value |-> RuntimeError]]
    /\ UNCHANGED <<llm_models, rpc, daily_summaries, monthly_summaries, daily_judge,
                   monthly_judge, http_status, judge, features, stores, parser, uploads,
                   sampler, now>>

(* every task has settled: gather hands its list to generate_summaries, which
   returns the valid summaries to run_summarization; an exception that leaves
   generate_summaries leaves run_summarization too (response 500) *)
GatherDone ==
    /\ rpc \in {"gather_daily", "gather_monthly"}
    /\ Settled(tasks[Horizon])
    /\ IF GatherRaises(tasks[Horizon])
       THEN /\ rpc' = "responded"
            /\ http_status' = 500
            /\ UNCHANGED <<daily_summaries, monthly_summaries>>
       ELSE /\ rpc' = IF rpc = "gather_daily" THEN "generate_monthly" ELSE "check"
            /\ daily_summaries' = IF rpc = "gather_daily"
                                  THEN valid_summaries(Gather(tasks[Horizon]))
                                  ELSE daily_summaries
            /\ monthly_summaries' = IF rpc = "gather_monthly"
                                    THEN valid_summaries(Gather(tasks[Horizon]))
                                    ELSE monthly_summaries
            /\ UNCHANGED http_status
    /\ UNCHANGED <<llm_models, tasks, daily_judge, monthly_judge, judge, features,
                   stores, parser, uploads, sampler, now>>

(* if not daily_summaries / if not monthly_summaries: HTTPException 500 *)
FanOutFailed ==
    /\ rpc = "check"
    /\ daily_summaries = << >> \/ monthly_summaries = << >>
    /\ rpc' = "responded"
    /\ http_status' = 500
    /\ UNCHANGED <<llm_models, tasks, daily_summaries, monthly_summaries, daily_judge,
                   monthly_judge, judge, features, stores, parser, uploads, sampler, now>>

(* judge_service.judge_summaries(daily_summaries, "daily", request.judge_model) *)
JudgeDaily ==
    /\ rpc = "check"
    /\ daily_summaries # << >>
    /\ monthly_summaries # << >>
    /\ rpc' = "judge_daily"
    /\ jpc' = "called"
    /\ judge_args' = daily_summaries
    /\ UNCHANGED <<llm_models, tasks, daily_summaries, monthly_summaries, daily_judge,
                   monthly_judge, http_status, judge_model_calls, judge_output,
                   features, stores, parser, uploads, sampler, now>>

(* the daily verdict is back: judge_summaries(monthly_summaries, "monthly", ...) *)
JudgeMonthly ==
    /\ rpc = "judge_daily"
    /\ jpc = "returned"
    /\ daily_judge' = judge_output
    /\ rpc' = "judge_monthly"
    /\ jpc' = "called"
    /\ judge_args' = monthly_summaries
    /\ UNCHANGED <<llm_models, tasks, daily_summaries, monthly_summaries,
                   monthly_judge, http_status, judge_model_calls, judge_output,
                   features, stores, parser, uploads, sampler, now>>

(* an exception of judge_summaries is not caught by run_summarization *)
JudgeFailed ==
    /\ rpc \in {"judge_daily", "judge_monthly"}
    /\ jpc = "raised"
    /\ rpc' = "responded"
    /\ http_status' = 500
    /\ UNCHANGED <<llm_models, tasks, daily_summaries, monthly_summaries, daily_judge,
                   monthly_judge, judge, features, stores, parser, uploads, sampler, now>>

(* the monthly verdict is back: both summaries are saved and the response is
   built *)
SaveAndRespond ==
    /\ rpc = "judge_monthly"
    /\ jpc = "returned"
    /\ monthly_judge' = judge_output
    /\ summary_rows' =
           save_summary(
               save_summary(summary_rows, Uuid(uuid_count + 1), RequestUser, "daily",
                            daily_judge, UtcNowIso(now)),
               Uuid(uuid_count + 2), RequestUser, "monthly", judge_output,
               UtcNowIso(now))
    /\ uuid_count' = uuid_count + 2
    /\ saves' = saves \o <<[user_id |-> RequestUser, summary_type |-> "daily",
                            judge_output |-> daily_judge],
                           [user_id |-> RequestUser, summary_type |-> "monthly",
                            judge_output |-> judge_output]>>
    /\ rpc' = "responded"
    /\ http_status' = 200
    /\ UNCHANGED <<llm_models, tasks, daily_summaries, monthly_summaries, daily_judge,
                   judge, features, tx_rows,
                   last_added, parser, uploads, sampler, now>>

(* JudgeService.judge_summaries *)

(* `if not summaries` and `if len(summaries) == 1` *)
NoSummariesUnchecked(summaries) == FALSE

NoSummaries(summaries) == summaries = << >>

OnlyOneSummaryUnchecked(summaries) == FALSE

OnlyOneSummary(summaries) == Len(summaries) = 1

(* if len(summaries) == 1: the candidate wins without a call *)
SingleSummaryOutput(summaries) ==
    [winning_model_id |-> summaries[1].model_id,
     ranked_models |-> <<summaries[1].model_id>>,
     reasons |-> <<"Only one summary provided">>,
     final_summary |-> summaries[1]]

(* judge_summaries up to its first await: ValueError on no summaries, the
   single candidate returned at once, otherwise the rubric is built and
   judge_adapter.judge_summaries is awaited *)
JudgeCalled ==
    /\ jpc = "called"
    /\ IF NoSummaries(judge_args)
       THEN /\ jpc' = "raised"
            /\ judge_output' = ValueError
            /\ UNCHANGED judge_model_calls
       ELSE IF OnlyOneSummary(judge_args)
       THEN /\ jpc' = "returned"
            /\ judge_output' = SingleSummaryOutput(judge_args)
            /\ UNCHANGED judge_model_calls
       ELSE /\ jpc' = "in_flight"
            /\ judge_model_calls' = judge_model_calls + 1
            /\ UNCHANGED judge_output
    /\ UNCHANGED <<pipeline, judge_args, features, stores, parser, uploads, sampler, now>>

(* What a judge model may answer: any candidate wins, the ranking lists the
   candidates' ids in the order given or reversed *)
Reverse(seq) == [i \in 1 .. Len(seq) |-> seq[Len(seq) + 1 - i]]

ModelIdsOf(summaries) == [i \in 1 .. Len(summaries) |-> summaries[i].model_id]

JudgeAnswers(summaries) ==
    {[winning_model_id |-> summaries[w].model_id,
      ranked_models |-> ranked,
      reasons |-> <<"Most specific evidence citations">>,
      final_summary |-> summaries[w]] :
        w \in 1 .. Len(summaries),
        ranked \in {ModelIdsOf(summaries), Reverse(ModelIdsOf(summaries))}}

JudgeModelReturns ==
    /\ jpc = "in_flight"
    /\ \E answer \in JudgeAnswers(judge_args) : judge_output' = answer
    /\ jpc' = "returned"
    /\ UNCHANGED <<pipeline, judge_args, judge_model_calls, features, stores, parser, uploads,
                   sampler, now>>

JudgeModelRaises ==
    /\ jpc = "in_flight"
    /\ judge_output' = RuntimeError
    /\ jpc' = "raised"
    /\ UNCHANGED <<pipeline, judge_args, judge_model_calls, features, stores, parser, uploads,
                   sampler, now>>

JudgeSummaries ==
    \/ JudgeCalled
    \/ JudgeModelReturns
    \/ JudgeModelRaises

PipelineNext ==
    \/ GenerateSummaries
    \/ \E i \in 1 .. Len(llm_models) : TaskReturns(i)
    \/ \E i \in 1 .. Len(llm_models) : TaskRaises(i)
    \/ GatherDone
    \/ FanOutFailed
    \/ JudgeDaily
    \/ JudgeMonthly
    \/ JudgeFailed
    \/ SaveAndRespond
    \/ JudgeSummaries

PipelineSpec == PipelineInit /\ [][PipelineNext]_vars

(* The candidates judge_summaries is handed when it is called on its own *)
Candidates ==
    [model_id : ModelIds, summary_type : {"daily"}, confidence : {78, 85}]

JudgeInit ==
    /\ judge_args \in SeqsUpTo(Candidates, MaxModels)
    /\ jpc = "called"
    /\ judge_model_calls = 0
    /\ judge_output = None
    /\ now = 2
    /\ PipelineIdle
    /\ FeaturesIdle
    /\ StoresEmpty
    /\ ParserIdle
    /\ UploadsIdle
    /\ SamplerIdle

JudgeNext == JudgeSummaries

JudgeSpec == JudgeInit /\ [][JudgeNext]_vars

-----------------------------------------------------------------------------
(* The feature extractor (backend/app/services/features.py).  Amounts and
   balances are floats with a zero fraction, so sums are exact; a mean is kept
   as the pair <<sum, count>> and compared by cross-multiplication.

   AggregationSpec   extract_aggregations on every list of up to MaxAggTx
                     transactions
   BalanceSpec       extract_balance_health on every list of up to MaxBalTx
                     transactions *)

MaxAggTx == 3       \* longest list handed to extract_aggregations
MaxBalTx == 4       \* longest list handed to extract_balance_health

(* An Optional[float] that is None *)
NoBalance == 999

AggTransaction ==
    [amount : {-20, 0, 5, 30}, currency : {"USD"}, category : {None, "F", "G"}]

(* Day 10 lies before the 30-day window of day 45, days 40 and 41 inside it *)
BalTransaction ==
    [timestamp : {40}, balance_after : {NoBalance, -20, 0, 20, 21, 22}]
        \cup [timestamp : {10}, balance_after : {20}]
        \cup [timestamp : {41}, balance_after : {22}]

RECURSIVE Sum(_)
Sum(numbers) ==
    IF numbers = << >> THEN 0 ELSE Head(numbers) + Sum(Tail(numbers))

AmountsOf(txs) == [i \in 1 .. Len(txs) |-> txs[i].amount]

(* tx.category or "Uncategorized", and the key tx.category itself *)
CategoryAsGiven(tx) == tx.category

CategoryKey(tx) == IF Truthy(tx.category) THEN tx.category ELSE "Uncategorized"

(* the two loops that fill by_category and by_currency *)
RECURSIVE Breakdown(_, _, _)
Breakdown(txs, key, acc) ==
    IF txs = << >> THEN acc
    ELSE LET tx == Head(txs)
             k == key[tx]
             old == IF k \in DOMAIN acc THEN acc[k] ELSE [count |-> 0, total |-> 0]
             new == [count |-> old.count + 1, total |-> old.total + Abs(tx.amount)]
         IN  Breakdown(Tail(txs), key,
                       [c \in DOMAIN acc \cup {k} |-> IF c = k THEN new ELSE acc[c]])

extract_aggregations(txs) ==
    IF txs = << >>
    THEN [total_income |-> 0, total_spending |-> 0, net_flow |-> 0,
          transaction_count |-> 0, avg_transaction |-> <<0, 1>>,
          by_category |-> << >>, by_currency |-> << >>]
    ELSE LET income == Sum(SelectSeq(AmountsOf(txs), LAMBDA a : a > 0))
             spending == Abs(Sum(SelectSeq(AmountsOf(txs), LAMBDA a : a < 0)))
         IN  [total_income |-> income,
              total_spending |-> spending,
              net_flow |-> income - spending,
              transaction_count |-> Len(txs),
              avg_transaction |->
                  <<Sum([i \in 1 .. Len(txs) |-> Abs(txs[i].amount)]), Len(txs)>>,
              by_category |->
                  Breakdown(txs, [tx \in Range(txs) |-> CategoryKey(tx)], << >>),
              by_currency |->
                  Breakdown(txs, [tx \in Range(txs) |-> tx.currency], << >>)]

NoBalanceHealth ==
    [min_balance_30d |-> NoBalance, avg_balance |-> <<NoBalance, 1>>,
     max_balance_30d |-> NoBalance, overdraft_count |-> 0, balance_trend |-> "unknown"]

RECURSIVE MinOf(_)
MinOf(numbers) ==
    IF Len(numbers) = 1 THEN numbers[1] ELSE Min(Head(numbers), MinOf(Tail(numbers)))

RECURSIVE MaxOf(_)
MaxOf(numbers) ==
    IF Len(numbers) = 1 THEN numbers[1] ELSE Max(Head(numbers), MaxOf(Tail(numbers)))

(* lines 58-71: second_avg > first_avg * 1.05, second_avg < first_avg * 0.95,
   the averages being sum / len of the two halves *)
Trend(balances) ==
    IF Len(balances) >= 4
    THEN LET half == Len(balances) \div 2
             first_half == SubSeq(balances, 1, half)
             second_half == SubSeq(balances, half + 1, Len(balances))
             first_sum == Sum(first_half)
             second_sum == Sum(second_half)
         IN  IF second_sum * Len(first_half) * 100 > first_sum * 105 * Len(second_half)
             THEN "increasing"
             ELSE IF second_sum * Len(first_half) * 100 < first_sum * 95 * Len(second_half)
             THEN "decreasing"
             ELSE "stable"
    ELSE "unknown"

extract_balance_health(txs, days, as_of_given) ==
    IF txs = << >> THEN NoBalanceHealth
    ELSE LET reference_date == IF as_of_given # NoDate THEN as_of_given ELSE now
             cutoff == reference_date - days
             recent_txs == SelectSeq(txs, LAMBDA tx : tx.timestamp >= cutoff)
             with_balance == SelectSeq(recent_txs, LAMBDA tx : tx.balance_after # NoBalance)
             balances == [i \in 1 .. Len(with_balance) |-> with_balance[i].balance_after]
         IN  IF balances = << >> THEN NoBalanceHealth
             ELSE [min_balance_30d |-> MinOf(balances),
                   avg_balance |-> <<Sum(balances), Len(balances)>>,
                   max_balance_30d |-> MaxOf(balances),
                   overdraft_count |-> Len(SelectSeq(balances, LAMBDA b : b < 0)),
                   balance_trend |-> Trend(balances)]

FeatureInit(Txs, longest, given) ==
    /\ transactions \in SeqsUpTo(Txs, longest)
    /\ as_of \in given
    /\ now = 45
    /\ pc = "extract"
    /\ top_x = 0
    /\ stratified_n = 0
    /\ recency_days = 0
    /\ target_char_budget = 0
    /\ NoLocals
    /\ result = << >>
    /\ stats = << >>
    /\ calls = 0
    /\ prev = << >>
    /\ ServicesIdle

AggregationInit == FeatureInit(AggTransaction, MaxAggTx, {NoDate})

ExtractAggregations ==
    /\ pc = "extract"
    /\ aggregations' = extract_aggregations(transactions)
    /\ pc' = "extracted"
    /\ UNCHANGED <<config, now, locals, result, stats, calls, prev, pipeline, judge,
                   balance_health, stores, parser, uploads>>

AggregationNext == ExtractAggregations

AggregationSpec == AggregationInit /\ [][AggregationNext]_vars

BalanceInit == FeatureInit(BalTransaction, MaxBalTx, {NoDate, 45})

(* extract_balance_health(sampled_transactions, as_of=reference_date), days
   left at its default of 30 *)
ExtractBalanceHealth ==
    /\ pc = "extract"
    /\ balance_health' = extract_balance_health(transactions, 30, as_of)
    /\ pc' = "extracted"
    /\ UNCHANGED <<config, now, locals, result, stats, calls, prev, pipeline, judge,
                   aggregations, stores, parser, uploads>>

BalanceNext == ExtractBalanceHealth

BalanceSpec == BalanceInit /\ [][BalanceNext]_vars

-----------------------------------------------------------------------------
(* The two stores (backend/app/storage/database.py).  A table is the sequence
   of its rows in rowid order; the clock counts half seconds.

   TransactionStoreSpec   add_transactions called again and again
   SummaryStoreSpec       save_summary called again and again, the clock
                          standing still or advancing between two calls *)

MaxUpload == 2      \* longest list handed to add_transactions
MaxRows == 3        \* most rows the table transactions grows to
MaxSaves == 3       \* most rows the table summaries grows to

Users == {"A", "B"}

(* What is uploaded: transactions with the id "a", and one without id (as
   every row of a CSV upload is) *)
TransactionCreate ==
    [id : {"a"}, user_id : Users, timestamp : {1}, amount : {-20, 5}]
        \cup [id : {None}, user_id : {"A"}, timestamp : {1}, amount : {5}]

(* tx.timestamp.isoformat() of a timezone-aware midnight *)
IsoFormat(ts) == DateStr(ts) \o "T00:00:00+00:00"

(* INSERT OR REPLACE on the primary key id: a row with the same id is deleted,
   the new row gets the next rowid *)
InsertKeepingOld(rows, row) ==
    Append(rows, row)

InsertOrReplace(rows, row) ==
    Append(SelectSeq(rows, LAMBDA r : r.id # row.id), row)

(* TransactionStore.add_transactions: the table and the number of uuids drawn
   after the loop *)
RECURSIVE add_transactions(_, _, _, _)
add_transactions(rows, txs, uuids, utcnow) ==
    IF txs = << >> THEN [rows |-> rows, uuids |-> uuids]
    ELSE LET tx == Head(txs)
             drawn == IF Truthy(tx.id) THEN uuids ELSE uuids + 1
             tx_id == IF Truthy(tx.id) THEN tx.id ELSE Uuid(drawn)
             row == [id |-> tx_id, user_id |-> tx.user_id,
                     timestamp |-> IsoFormat(tx.timestamp), amount |-> tx.amount,
                     created_at |-> utcnow]
         IN  add_transactions(InsertOrReplace(rows, row), Tail(txs), drawn, utcnow)

(* TransactionStore.get_transactions without start_date and end_date: the rows
   of the user, ORDER BY timestamp ASC (rows of one timestamp in rowid order,
   as the index idx_user_timestamp gives them), each read back as a Transaction *)
get_transactions(rows, user_id) ==
    LET selected == SelectSeq(rows, LAMBDA r : r.user_id = user_id)
        day(r) == CHOOSE d \in 1 .. 31 : IsoFormat(d) = r.timestamp
        ordered == SortBy(selected, [r \in Range(selected) |-> day(r)])
    IN  [k \in DOMAIN ordered |->
            [id |-> ordered[k].id, timestamp |-> day(ordered[k]), amount |-> ordered[k].amount]]

TransactionStoreInit ==
    /\ StoresEmpty
    /\ now = 2
    /\ PipelineIdle
    /\ JudgeIdle
    /\ FeaturesIdle
    /\ ParserIdle
    /\ UploadsIdle
    /\ SamplerIdle

AddTransactions ==
    \E txs \in SeqsUpTo(TransactionCreate, MaxUpload) :
        LET after == add_transactions(tx_rows, txs, uuid_count, UtcNowIso(now))
        IN  /\ Len(after.rows) <= MaxRows
            /\ tx_rows' = after.rows
            /\ uuid_count' = after.uuids
            /\ last_added' = txs
            /\ UNCHANGED <<summary_rows, saves, now, pipeline, judge, features, parser, uploads,
                           sampler>>

TransactionStoreNext == AddTransactions

TransactionStoreSpec == TransactionStoreInit /\ [][TransactionStoreNext]_vars

(* Comparison of two TEXT values, field by field; a text that is a prefix of
   another sorts before it *)
RECURSIVE TextLess(_, _)
TextLess(a, b) ==
    IF b = << >> THEN FALSE
    ELSE IF a = << >> THEN TRUE
    ELSE IF Head(a) # Head(b) THEN Head(a) < Head(b)
    ELSE TextLess(Tail(a), Tail(b))

(* ORDER BY created_at DESC, read backwards from the index
   idx_user_type_created, whose entries of equal created_at are in rowid
   order: row i comes before row j *)
ComesBeforeAscending(rows, i, j) ==
    \/ TextLess(rows[i].created_at, rows[j].created_at)
    \/ rows[i].created_at = rows[j].created_at /\ i < j

ComesBefore(rows, i, j) ==
    \/ TextLess(rows[j].created_at, rows[i].created_at)
    \/ rows[i].created_at = rows[j].created_at /\ i > j

(* SummaryStore.get_latest_summary *)
get_latest_summary(rows, user_id, summary_type) ==
    LET matching == {i \in 1 .. Len(rows) :
                        rows[i].user_id = user_id /\ rows[i].summary_type = summary_type}
    IN  IF matching = {} THEN None
        ELSE LET first == CHOOSE i \in matching :
                              \A j \in matching \ {i} : ComesBefore(rows, i, j)
             IN  LoadJudgeOutput(rows[first].judge_output)

(* The judge outputs that get saved *)
JudgeOutputs ==
    {SingleSummaryOutput(<<SummaryResponse(m, "daily")>>) : m \in ModelIds}

SummaryStoreInit ==
    /\ StoresEmpty
    /\ now = 2
    /\ PipelineIdle
    /\ JudgeIdle
    /\ FeaturesIdle
    /\ ParserIdle
    /\ UploadsIdle
    /\ SamplerIdle

(* save_summary, called when the clock shows the same or the next reading *)
SaveSummary ==
    \E user_id \in Users, summary_type \in Horizons, output \in JudgeOutputs,
       elapsed \in {0, 1} :
        /\ Len(summary_rows) < MaxSaves
        /\ now' = now + elapsed
        /\ summary_rows' = save_summary(summary_rows, Uuid(uuid_count + 1), user_id,
                                        summary_type, output, UtcNowIso(now'))
        /\ uuid_count' = uuid_count + 1
        /\ saves' = Append(saves, [user_id |-> user_id, summary_type |-> summary_type,
                                   judge_output |-> output])
        /\ UNCHANGED <<tx_rows, last_added, pipeline, judge, features, parser, uploads, sampler>>

SummaryStoreNext == SaveSummary

SummaryStoreSpec == SummaryStoreInit /\ [][SummaryStoreNext]_vars

(***************************************************************************)
(* utils/timestamp.py: parse_timestamp.  A string is a sequence of tokens, *)
(* each token a run of characters that the parsers read as one unit: a     *)
(* calendar date, a year and month, a clock time, an offset, or a single   *)
(* character.  The strings tried are                                       *)
(*     blanks, date, separator, time, offset, blanks                       *)
(* with every part optional.  The optional python-dateutil package may or  *)
(* may not be importable in a deployment.                                  *)
(***************************************************************************)
MaxBlanks == 1

TimestampStrings ==
    LET Blanks == {[i \in 1 .. n |-> " "] : n \in 0 .. MaxBlanks}
        Dates == {<< >>, <<"2024-01-02">>, <<"2024-01">>, <<"x">>}
        Separators == {<< >>, <<"T">>, <<" ">>}
        Times == {<< >>, <<"09:10:00">>}
        Offsets == {<< >>, <<"Z">>, <<"+01:00">>}
    IN  {lead \o d \o sep \o t \o off \o trail :
            lead \in Blanks, d \in Dates, sep \in Separators,
            t \in Times, off \in Offsets, trail \in Blanks}

UTC == "+00:00"

Datetime(date, time, tzinfo) == [date |-> date, time |-> time, tzinfo |-> tzinfo]

\* what the run of characters of a token is to a parser
Kind(token) ==
    IF token = "2024-01-02" THEN "date"
    ELSE IF token = "2024-01" THEN "year-month"
    ELSE IF token = "09:10:00" THEN "time"
    ELSE IF token \in {"+01:00", UTC} THEN "offset"
    ELSE "character"

\* the digits hh:mm of an offset, read as a clock time
ClockOf(offset) == IF offset = "+01:00" THEN "01:00:00" ELSE "00:00:00"

\* s.strip()
Strip(s) ==
    LET inked == {i \in 1 .. Len(s) : s[i] # " "}
    IN  IF inked = {} THEN << >>
        ELSE SubSeq(s, CHOOSE i \in inked : \A j \in inked : i <= j,
                       CHOOSE i \in inked : \A j \in inked : j <= i)

\* if s.endswith("Z"): s = s[:-1] + "+00:00"
ZToOffset(s) ==
    IF s # << >> /\ s[Len(s)] = "Z" THEN SubSeq(s, 1, Len(s) - 1) \o <<UTC>> ELSE s

\* the kinds of the tokens of s, in order
Kinds(s) == [i \in 1 .. Len(s) |-> Kind(s[i])]

(* datetime.fromisoformat of Python 3.11: a full calendar date, then        *)
(* optionally any one character and a clock time with an optional offset.  *)
(* Directly after the date the sign of an offset is that one character,    *)
(* and its digits are the clock time.                                      *)
FromIsoFormat(s) ==
    IF Kinds(s) = <<"date">> THEN Datetime(s[1], "00:00:00", None)
    ELSE IF Kinds(s) = <<"date", "offset">> THEN Datetime(s[1], ClockOf(s[2]), None)
    ELSE IF Kinds(s) = <<"date", "character", "time">> THEN Datetime(s[1], s[3], None)
    ELSE IF Kinds(s) = <<"date", "character", "time", "offset">>
        THEN Datetime(s[1], s[3], s[4])
    ELSE ValueError

\* if dt.tzinfo is None: dt = dt.replace(tzinfo=timezone.utc)
AssumeUtc(dt) == IF dt.tzinfo = None THEN [dt EXCEPT !.tzinfo = UTC] ELSE dt

(* dateutil.parser.isoparse: a calendar date or a year and month (the day  *)
(* defaults to 1), then optionally any one character and a clock time, an  *)
(* offset, or both.  After a year and month a blank is read as the end of  *)
(* a day-of-year number; the sign of the offset that follows is then the   *)
(* separating character and its digits the clock time.                     *)
IsoParse(s) ==
    IF Kinds(s) = <<"date">> THEN Datetime(s[1], "00:00:00", None)
    ELSE IF Kinds(s) = <<"year-month">> THEN Datetime(s[1] \o "-01", "00:00:00", None)
    ELSE IF Kinds(s) = <<"date", "offset">> THEN Datetime(s[1], ClockOf(s[2]), None)
    ELSE IF Kinds(s) = <<"date", "character", "time">> THEN Datetime(s[1], s[3], None)
    ELSE IF Kinds(s) = <<"date", "character", "offset">>
        THEN Datetime(s[1], "00:00:00", s[3])
    ELSE IF Kinds(s) = <<"year-month", "character", "offset">> /\ s[2] = " "
        THEN Datetime(s[1] \o "-01", ClockOf(s[3]), None)
    ELSE IF Kinds(s) = <<"date", "character", "time", "offset">>
        THEN Datetime(s[1], s[3], s[4])
    ELSE ValueError

parse_timestamp(string, dateutil) ==
    IF string = << >> THEN ValueError
    ELSE
        LET s == ZToOffset(Strip(string))
            first == FromIsoFormat(s)
            second ==
                IF (\E i \in 1 .. Len(s) : s[i] = " ") /\ ~(\E i \in 1 .. Len(s) : s[i] = "T")
                THEN FromIsoFormat([i \in 1 .. Len(s) |-> IF s[i] = " " THEN "T" ELSE s[i]])
                ELSE ValueError
            fallback == IF dateutil THEN IsoParse(s) ELSE ValueError
        IN  IF ~IsException(first) THEN AssumeUtc(first)
            ELSE IF ~IsException(second) THEN AssumeUtc(second)
            ELSE IF ~IsException(fallback) THEN fallback
            ELSE ValueError

TimestampInit ==
    /\ ts_string \in TimestampStrings
    /\ dateutil_available \in BOOLEAN
    /\ ts_result = << >>
    /\ pc = "parse"
    /\ transactions = << >>
    /\ as_of = NoDate
    /\ now = 45
    /\ top_x = 0
    /\ stratified_n = 0
    /\ recency_days = 0
    /\ target_char_budget = 0
    /\ NoLocals
    /\ result = << >>
    /\ stats = << >>
    /\ calls = 0
    /\ prev = << >>
    /\ PipelineIdle
    /\ JudgeIdle
    /\ FeaturesIdle
    /\ StoresEmpty
    /\ UploadsIdle

ParseTimestamp ==
    /\ pc = "parse"
    /\ ts_result' = parse_timestamp(ts_string, dateutil_available)
    /\ pc' = "parsed"
    /\ UNCHANGED <<config, now, locals, result, stats, calls, prev, pipeline, judge,
                   features, stores, uploads, ts_string,
                   dateutil_available>>

TimestampNext == ParseTimestamp

TimestampSpec == TimestampInit /\ [][TimestampNext]_vars

-----------------------------------------------------------------------------
(* The CSV branch of upload_transactions (backend/app/main.py).  The file has
   the header timestamp,amount,currency,description; a row is the sequence of
   its fields, and csv.DictReader gives None for the columns a short row does
   not reach.  A field is a string of tokens, as read by parse_timestamp.  The date range of the response is left out.

   UploadSpec   one upload after the other into the same store *)

MaxFileRows == 2    \* most data rows of an uploaded file

CsvRows ==
    {<<<<"2024-01-02">>, amount, <<"USD">>, <<"shop">> >> :
        amount \in {<<"5">>, <<"-20">>, <<"abc">>}}
        \cup {<<ts, <<"5">>, <<"USD">>, <<"shop">> >> : ts \in {<<"x">>, << >>}}
        \cup {<<<<"2024-01-02">>, <<"5">>, <<"USD">>, << >> >>,
              <<<<"2024-01-02">>, <<"5">> >>}

TypeError == [exception |-> "TypeError"]

(* not row[column]: the column is None or the empty string *)
Falsy(row, column) == Len(row) < column \/ row[column] = << >>

(* float(text) of the amounts that occur; it raises ValueError on other text *)
Float == [text \in {<<"5">>, <<"-20">>} |-> IF text = <<"5">> THEN 5 ELSE -20]

(* the day of January 2024 of a parsed timestamp *)
DayOf(dt) == CHOOSE day \in 1 .. 31 : DateStr(day) = dt.date

(* lines 78-95, the body of the try: the transaction built from a row, or the
   exception raised *)
CsvTransaction(row, user_id, dateutil) ==
    IF Falsy(row, 1) \/ Falsy(row, 2) \/ Falsy(row, 4) THEN ValueError
    ELSE IF IsException(parse_timestamp(row[1], dateutil)) THEN ValueError
    ELSE IF row[2] \notin DOMAIN Float THEN ValueError
    ELSE [id |-> None, user_id |-> user_id,
          timestamp |-> DayOf(parse_timestamp(row[1], dateutil)),
          amount |-> Float[row[2]]]

(* lines 97-106, the except clause: obfuscate_merchant(row["description"])
   raises TypeError when the row does not reach the description column *)
HandlerRaises(row) == Len(row) < 4

(* lines 76-106, the loop over the rows: the transactions collected, or the
   exception that left the loop *)
RECURSIVE ReadCsv(_, _, _, _)
ReadCsv(rows, user_id, dateutil, collected) ==
    IF rows = << >> THEN [transactions |-> collected]
    ELSE LET tx == CsvTransaction(Head(rows), user_id, dateutil)
         IN  IF ~IsException(tx)
             THEN ReadCsv(Tail(rows), user_id, dateutil, Append(collected, tx))
             ELSE IF HandlerRaises(Head(rows)) THEN TypeError
             ELSE ReadCsv(Tail(rows), user_id, dateutil, collected)

UploadInit ==
    /\ StoresEmpty
    /\ UploadsIdle
    /\ now = 2
    /\ ts_string = << >>
    /\ dateutil_available \in BOOLEAN
    /\ ts_result = << >>
    /\ PipelineIdle
    /\ JudgeIdle
    /\ FeaturesIdle
    /\ SamplerIdle

(* upload_transactions, lines 64-204: 500 when an exception left the loop, 400
   when no transaction was collected, else the transactions are stored *)
UploadTransactions ==
    \E user_id \in {RequestUser}, rows \in SeqsUpTo(CsvRows, MaxFileRows) :
        LET read == ReadCsv(rows, user_id, dateutil_available, << >>)
            txs == IF IsException(read) THEN << >> ELSE read.transactions
            after == add_transactions(tx_rows, txs, uuid_count, UtcNowIso(now))
        IN  /\ Len(after.rows) <= MaxRows
            /\ upload_body' = [user_id |-> user_id, rows |-> rows]
            /\ upload_response' =
                   IF IsException(read) THEN [status |-> 500]
                   ELSE IF txs = << >> THEN [status |-> 400]
                   ELSE [status |-> 200, transaction_count |-> Len(txs)]
            /\ tx_rows' = after.rows
            /\ uuid_count' = after.uuids
            /\ last_added' = IF txs = << >> THEN last_added ELSE txs
            /\ UNCHANGED <<summary_rows, saves, now, pipeline, judge, features, parser,
                           sampler>>

UploadNext == UploadTransactions

UploadSpec == UploadInit /\ [][UploadNext]_vars

-----------------------------------------------------------------------------
(* upload_openbanking_transactions (backend/app/main.py).  An export is a
   sequence of statements, a statement a non-empty sequence of transactions
   (models/openbanking.py demands at least one of each).  The store holds
   nothing, or one transaction of the other user with the id "a".

   OpenBankingSpec   one Open Banking upload *)

MaxExportTx == 3    \* most transactions of an export, over all its statements

OtherUser == "B"

OBTransaction ==
    {[transaction_id |-> "a", provider_transaction_id |-> None, amount |-> amount] :
        amount \in {5, -20}}
        \cup [transaction_id : {None, "b"}, provider_transaction_id : {None, "a"},
              amount : {5}]

(* the statements of the transactions txs cut after the positions in cuts *)
RECURSIVE Statements(_, _)
Statements(txs, cuts) ==
    IF txs = << >> THEN << >>
    ELSE LET ends == {c \in cuts : 1 <= c /\ c < Len(txs)} \cup {Len(txs)}
             end == CHOOSE c \in ends : \A d \in ends : c <= d
         IN  <<SubSeq(txs, 1, end)>>
                 \o Statements(SubSeq(txs, end + 1, Len(txs)), {c - end : c \in cuts})

OpenBankingExport ==
    UNION {{Statements(txs, cuts) : cuts \in SUBSET (1 .. Len(txs) - 1)} :
              txs \in SeqsUpTo(OBTransaction, MaxExportTx) \ {<< >>}}

(* ob_tx.transaction_id or ob_tx.normalised_provider_transaction_id
   or ob_tx.provider_transaction_id, the second never given here *)
TxId(ob_tx) ==
    IF Truthy(ob_tx.transaction_id) THEN ob_tx.transaction_id
    ELSE ob_tx.provider_transaction_id

normalize_openbanking_transaction(ob_tx, user_id, dateutil) ==
    [id |-> TxId(ob_tx), user_id |-> user_id,
     timestamp |-> DayOf(parse_timestamp(<<"2024-01-02">>, dateutil)),
     amount |-> ob_tx.amount]

(* if tx_id and tx_id in seen_transaction_ids: continue *)
IsDuplicateNever(tx_id, seen_transaction_ids) ==
    FALSE

IsDuplicate(tx_id, seen_transaction_ids) ==
    Truthy(tx_id) /\ tx_id \in seen_transaction_ids

(* lines 279-296, the two loops flattened: all_transactions after them *)
RECURSIVE CollectTransactions(_, _, _, _, _)
CollectTransactions(ob_txs, user_id, dateutil, all_transactions, seen_transaction_ids) ==
    IF ob_txs = << >> THEN all_transactions
    ELSE LET ob_tx == Head(ob_txs)
             tx_id == TxId(ob_tx)
         IN  IF IsDuplicate(tx_id, seen_transaction_ids)
             THEN CollectTransactions(Tail(ob_txs), user_id, dateutil, all_transactions,
                                      seen_transaction_ids)
             ELSE CollectTransactions(
                      Tail(ob_txs), user_id, dateutil,
                      Append(all_transactions,
                             normalize_openbanking_transaction(ob_tx, user_id, dateutil)),
                      IF Truthy(tx_id) THEN seen_transaction_ids \cup {tx_id}
                      ELSE seen_transaction_ids)

(* for statement in export.statements: for ob_tx in statement.transactions *)
RECURSIVE Flatten(_)
Flatten(statements) ==
    IF statements = << >> THEN << >> ELSE Head(statements) \o Flatten(Tail(statements))

OpenBankingInit ==
    /\ tx_rows \in {<< >>,
                    add_transactions(<< >>, <<[id |-> "a", user_id |-> OtherUser,
                                               timestamp |-> 1, amount |-> 5]>>,
                                     0, UtcNowIso(1)).rows}
    /\ last_added = << >>
    /\ summary_rows = << >>
    /\ saves = << >>
    /\ uuid_count = 0
    /\ UploadsIdle
    /\ now = 2
    /\ ts_string = << >>
    /\ dateutil_available \in BOOLEAN
    /\ ts_result = << >>
    /\ PipelineIdle
    /\ JudgeIdle
    /\ FeaturesIdle
    /\ SamplerIdle

(* upload_openbanking_transactions, lines 256-332 *)
UploadOpenBanking ==
    /\ upload_response = << >>
    /\ \E export \in OpenBankingExport :
        LET all_transactions ==
                CollectTransactions(Flatten(export), RequestUser, dateutil_available,
                                    << >>, {})
            after == add_transactions(tx_rows, all_transactions, uuid_count,
                                      UtcNowIso(now))
        IN  /\ upload_body' = [user_id |-> RequestUser, statements |-> export]
            /\ upload_response' =
                   IF all_transactions = << >> THEN [status |-> 400]
                   ELSE [status |-> 200, transaction_count |-> Len(all_transactions),
                         accounts_count |-> Len(export)]
            /\ tx_rows' = after.rows
            /\ uuid_count' = after.uuids
            /\ last_added' = all_transactions
    /\ UNCHANGED <<summary_rows, saves, now, pipeline, judge, features, parser, sampler>>

OpenBankingNext == UploadOpenBanking

OpenBankingSpec == OpenBankingInit /\ [][OpenBankingNext]_vars

-----------------------------------------------------------------------------
(* Properties of sample() *)

Returned == pc = "done"
Timestamp(r) == transactions[r].timestamp
Trimmed == Len(result) < Len(sampled_list)

(* the whole union of the three pools fits the budget *)
Unconstrained == Len(to_compact_string(sampled_list)) <= target_char_budget

(* C1: the compact encoding of the returned sequence is never longer than
   target_char_budget, whatever the input and the configuration *)
BudgetInvariant ==
    Returned => Len(to_compact_string(result)) <= target_char_budget

(* a call that had to trim, with top_x and stratified_n far above the input size *)
BudgetWitness ==
    /\ Returned
    /\ Trimmed
    /\ result # << >>
    /\ top_x > Len(transactions)
    /\ stratified_n > Len(transactions)

(* C2: the returned sequence is in ascending order of timestamp *)
ChronologicalOrder ==
    Returned =>
        \A k \in 1 .. (Len(result) - 1) : Timestamp(result[k]) <= Timestamp(result[k + 1])

(* C3: once a candidate of a tier has been rejected, no transaction of a later
   tier is added: a step that adds to the result finds every earlier tier
   wholly admitted *)
StopAllPasses ==
    [][(pc = "enforce" /\ result' # result) =>
          \A t \in 1 .. (pass - 1) : Range(priority[t]) \subseteq Range(result)]_vars

(* C4: with a non-empty Recent pool and a budget that fits at least one
   transaction, a returned sequence that holds a transaction outside the Recent
   and Top-X pools also holds a transaction of the Recent pool *)
RecencyPriority ==
    (/\ Returned
     /\ recent # << >>
     /\ \E r \in Range(AllRefs) : would_fit(<< >>, r)
     /\ \E k \in DOMAIN result :
            result[k] \notin (Range(recent) \cup Range(top_x_txs)))
    => \E k \in DOMAIN result : result[k] \in Range(recent)

(* C5: when the first item of the Recent tier (the earliest recent transaction
   of the union) does not fit on its own, the returned sequence is empty *)
EmptyWhenFirstRecentTooBig ==
    (/\ Returned
     /\ priority[1] # << >>
     /\ ~would_fit(<< >>, priority[1][1]))
    => result = << >>

NumericStats ==
    {"total_transactions", "sampled_count", "top_x_count", "stratified_count",
     "recency_count", "char_used"}

(* C6: sample([]) returns the empty sequence and stats with every numeric
   field present and 0 and both date-range fields None *)
EmptyInputStats ==
    (Returned /\ transactions = << >>) =>
        /\ result = << >>
        /\ NumericStats \cup {"date_range_start", "date_range_end"} \subseteq DOMAIN stats
        /\ \A f \in NumericStats : stats[f] = 0
        /\ stats.date_range_start = NoDate
        /\ stats.date_range_end = NoDate

(* C7: for a non-empty input, sampled_count is the length of the returned
   sequence and char_used the length of its compact encoding *)
StatsDescribeResult ==
    (Returned /\ transactions # << >>) =>
        /\ stats.sampled_count = Len(result)
        /\ stats.char_used = Len(to_compact_string(result))

(* a call whose budget enforcement dropped part of the union and kept part *)
StatsWitness ==
    /\ Returned
    /\ Trimmed
    /\ result # << >>
    /\ stats.char_used > 0

(* the slots of the k input transactions that a stable sort by descending
   |amount| puts first *)
GreatestK(k) ==
    {i \in DOMAIN transactions :
        Cardinality({j \in DOMAIN transactions :
            \/ Abs(transactions[j].amount) > Abs(transactions[i].amount)
            \/ (Abs(transactions[j].amount) = Abs(transactions[i].amount) /\ j < i)}) < k}

TopXKept ==
    LET k == Min(top_x, Len(transactions))
    IN  /\ GreatestK(k) \subseteq Range(result)
        /\ stats.top_x_count >= k

DistinctKeys ==
    \A i, j \in DOMAIN transactions : i # j => TxKey(i) # TxKey(j)

(* C10 as stated: with an unconstrained budget the k = min(top_x, len(input))
   transactions of greatest |amount| are all returned and top_x_count >= k *)
TopXInResult ==
    (Returned /\ transactions # << >> /\ Unconstrained) => TopXKept

(* C10 amended: the same, for inputs whose identity keys (the id, else the
   object) are pairwise distinct *)
TopXInResultDistinctKeys ==
    (Returned /\ transactions # << >> /\ Unconstrained /\ DistinctKeys) => TopXKept

(* an unconstrained call that kept the one largest of two different amounts
   although nothing else selected it *)
TopXWitness ==
    /\ Returned
    /\ Unconstrained
    /\ DistinctKeys
    /\ top_x = 1
    /\ Len(transactions) = 2
    /\ Len(result) = 1
    /\ stats.top_x_count = 1

-----------------------------------------------------------------------------
(* Properties of repeated calls *)

(* C8: a second call with the same list, configuration and as_of returns the
   same sequence and the same stats as the first, whatever the clock shows *)
Determinism ==
    (Returned /\ calls >= 2 /\ as_of # NoDate) =>
        /\ result = prev.result
        /\ stats = prev.stats

(* a second call that returned a trimmed, non-empty sequence after the clock
   had moved on *)
DeterminismWitness ==
    /\ Returned
    /\ calls = 2
    /\ as_of # NoDate
    /\ now > prev.clock
    /\ result # << >>
    /\ Trimmed

-----------------------------------------------------------------------------
(* Properties of _stratified_sample *)

(* C9: _stratified_sample(txs, n) returns at most n items, and the input
   itself when len(txs) <= n *)
StratificationCeiling ==
    pc = "stratified" =>
        /\ Len(stratified) <= stratified_n
        /\ Len(transactions) <= stratified_n => stratified = AllRefs

(* a list longer than n of which exactly n are picked, from a category and
   from the uncategorized *)
StratificationWitness ==
    /\ pc = "stratified"
    /\ Len(transactions) > stratified_n
    /\ Len(stratified) = stratified_n
    /\ \E k \in DOMAIN stratified : Truthy(transactions[stratified[k]].category)
    /\ \E k \in DOMAIN stratified : ~Truthy(transactions[stratified[k]].category)

-----------------------------------------------------------------------------
(* Properties of the fan-out, the judge and run_summarization *)

ReturnedCalls(h) == {i \in 1 .. Len(tasks[h]) : tasks[h][i].state = "returned"}

(* Every model id of the request got a backend call for the horizon and every
   one of them raised *)
AllFailed(h) ==
    /\ Len(tasks[h]) = Len(llm_models)
    /\ \A i \in 1 .. Len(tasks[h]) : tasks[h][i].state = "raised"

SomePending == \E h \in Horizons : \E i \in 1 .. Len(tasks[h]) : tasks[h][i].state = "pending"

(* run_summarization is past the generate_summaries call of the horizon *)
GenerateDone(h) ==
    \/ rpc \in {"check", "judge_daily", "judge_monthly", "responded"}
    \/ h = "daily" /\ rpc \in {"generate_monthly", "gather_monthly"}

GeneratedSummaries(h) == IF h = "daily" THEN daily_summaries ELSE monthly_summaries

(* C11: while generate_summaries gathers, every model id of the request has
   its own backend call; what it returned to run_summarization is exactly the
   summaries of the calls that returned, in call order: as many entries as
   calls that did not raise, the summary of the k-th such call at position k,
   and the empty list only when every call raised. *)
FanOutKeepsSuccesses ==
    \A h \in Horizons :
        /\ rpc \in {"gather_daily", "gather_monthly"} /\ Horizon = h
               => Len(tasks[h]) = Len(llm_models)
        /\ GenerateDone(h) =>
               /\ Len(tasks[h]) = Len(llm_models)
               /\ Len(GeneratedSummaries(h)) = Cardinality(ReturnedCalls(h))
               /\ \A i \in ReturnedCalls(h) :
                      GeneratedSummaries(h)[Cardinality({j \in ReturnedCalls(h) : j <= i})]
                          = tasks[h][i].value
               /\ (GeneratedSummaries(h) = << >>
                       <=> \A i \in 1 .. Len(tasks[h]) : tasks[h][i].state = "raised")

(* one daily call raised, another returned, and its summary came back *)
FanOutWitness ==
    /\ rpc = "generate_monthly"
    /\ \E i, j \in 1 .. Len(tasks["daily"]) :
           /\ tasks["daily"][i].state = "raised"
           /\ tasks["daily"][j].state = "returned"
    /\ Len(daily_summaries) = 1

(* C12: once both fan-outs are over, if every backend call of the daily or of
   the monthly horizon raised, the request can only end with status 500, no
   judge call was issued and nothing is saved; if each horizon has a call that
   returned, a 500 response comes from a judge call that raised, never from
   the backend calls that raised, and a request whose judge calls returned has
   status 200 and its two summaries saved. *)
HardFailureOnlyWhenAHorizonIsEmpty ==
    rpc \in {"check", "judge_daily", "judge_monthly", "responded"} =>
        /\ AllFailed("daily") \/ AllFailed("monthly") =>
               /\ rpc \in {"check", "responded"}
               /\ rpc = "responded" => http_status = 500
               /\ jpc = "idle"
               /\ judge_model_calls = 0
               /\ summary_rows = << >>
        /\ ~AllFailed("daily") /\ ~AllFailed("monthly") =>
               /\ rpc = "responded" /\ http_status = 500 => jpc = "raised"
               /\ rpc = "responded" /\ jpc = "returned" =>
                      /\ http_status = 200
                      /\ Len(summary_rows) = 2

(* a daily call returned, every monthly call raised, the response is 500 *)
HardFailureWitness ==
    /\ rpc = "responded"
    /\ http_status = 500
    /\ ReturnedCalls("daily") # {}
    /\ llm_models # << >>
    /\ AllFailed("monthly")

(* C13: while a judge call is open (judge_summaries entered and not yet
   returned or raised) every backend call of both horizons has returned or
   raised; as long as a backend call is pending no judge call has been
   started. *)
JudgeAfterFanOut ==
    /\ jpc \in {"called", "in_flight"} =>
           /\ rpc \in {"judge_daily", "judge_monthly"}
           /\ \A h \in Horizons :
                  /\ Len(tasks[h]) = Len(llm_models)
                  /\ \A i \in 1 .. Len(tasks[h]) : tasks[h][i].state # "pending"
    /\ SomePending => jpc = "idle" /\ judge_model_calls = 0

(* the judge model is being asked about the monthly summaries after a backend
   call raised *)
JudgeAfterFanOutWitness ==
    /\ rpc = "judge_monthly"
    /\ jpc = "in_flight"
    /\ \E h \in Horizons : \E i \in 1 .. Len(tasks[h]) : tasks[h][i].state = "raised"

(* C14: judge_summaries handed exactly one candidate never calls the judge
   model and never raises; what it returns names the candidate's model_id as
   winner and as the only ranked model, carries the candidate as
   final_summary and the one reason "Only one summary provided". *)
SingleCandidateWins ==
    Len(judge_args) = 1 =>
        /\ judge_model_calls = 0
        /\ jpc \in {"called", "returned"}
        /\ jpc = "returned" =>
               /\ judge_output.winning_model_id = judge_args[1].model_id
               /\ judge_output.ranked_models = <<judge_args[1].model_id>>
               /\ judge_output.final_summary = judge_args[1]
               /\ judge_output.reasons = <<"Only one summary provided">>

SingleCandidateWitness ==
    /\ Len(judge_args) = 1
    /\ jpc = "returned"

(* C15: judge_summaries handed no candidate raises ValueError, which is not
   the error of a failed judge call, without a judge-model call and without
   returning an output. *)
NoCandidatesRaise ==
    judge_args = << >> =>
        /\ judge_model_calls = 0
        /\ jpc \in {"called", "raised"}
        /\ jpc = "raised" => judge_output = ValueError /\ judge_output # RuntimeError

NoCandidatesWitness ==
    /\ judge_args = << >>
    /\ jpc = "raised"

-----------------------------------------------------------------------------
(* Properties of the feature extractor *)

RECURSIVE SumOfAmounts(_)
SumOfAmounts(indexes) ==
    IF indexes = {} THEN 0
    ELSE LET i == CHOOSE i \in indexes : TRUE
         IN  transactions[i].amount + SumOfAmounts(indexes \ {i})

RECURSIVE SumOfSizes(_)
SumOfSizes(indexes) ==
    IF indexes = {} THEN 0
    ELSE LET i == CHOOSE i \in indexes : TRUE
         IN  Abs(transactions[i].amount) + SumOfSizes(indexes \ {i})

RECURSIVE SumOfCounts(_, _)
SumOfCounts(breakdown, keys) ==
    IF keys = {} THEN 0
    ELSE LET k == CHOOSE k \in keys : TRUE
         IN  breakdown[k].count + SumOfCounts(breakdown, keys \ {k})

RECURSIVE SumOfTotals(_, _)
SumOfTotals(breakdown, keys) ==
    IF keys = {} THEN 0
    ELSE LET k == CHOOSE k \in keys : TRUE
         IN  breakdown[k].total + SumOfTotals(breakdown, keys \ {k})

(* The transactions of a category group; those without a category form the
   group "Uncategorized" *)
Group(c) ==
    {i \in 1 .. Len(transactions) :
        \/ transactions[i].category = c
        \/ c = "Uncategorized" /\ transactions[i].category = None}

(* C16: extract_aggregations returns total_income = the sum of the positive
   amounts, total_spending = the absolute value of the sum of the negative
   amounts, net_flow = their difference and transaction_count = the length of
   the list; by_category has one entry per category group present, the
   transactions without category under "Uncategorized", with the group's size
   and its sum of |amount|, so the counts add up to transaction_count and the
   totals to total_income + total_spending; the empty list gives zeros and
   empty breakdowns. *)
AggregationsAddUp ==
    pc = "extracted" =>
        LET all == 1 .. Len(transactions)
            by_category == aggregations.by_category
        IN  /\ aggregations.total_income
                   = SumOfAmounts({i \in all : transactions[i].amount > 0})
            /\ aggregations.total_spending
                   = Abs(SumOfAmounts({i \in all : transactions[i].amount < 0}))
            /\ aggregations.net_flow
                   = aggregations.total_income - aggregations.total_spending
            /\ aggregations.transaction_count = Len(transactions)
            /\ DOMAIN by_category = {c \in {"F", "G", "Uncategorized"} : Group(c) # {}}
            /\ \A c \in DOMAIN by_category :
                   /\ by_category[c].count = Cardinality(Group(c))
                   /\ by_category[c].total = SumOfSizes(Group(c))
            /\ SumOfCounts(by_category, DOMAIN by_category)
                   = aggregations.transaction_count
            /\ SumOfTotals(by_category, DOMAIN by_category)
                   = aggregations.total_income + aggregations.total_spending
            /\ transactions = << >> =>
                   aggregations = [total_income |-> 0, total_spending |-> 0,
                                   net_flow |-> 0, transaction_count |-> 0,
                                   avg_transaction |-> <<0, 1>>,
                                   by_category |-> << >>, by_currency |-> << >>]

(* income and spending, a transaction without category and one with *)
AggregationsWitness ==
    /\ pc = "extracted"
    /\ \E i, j \in 1 .. Len(transactions) :
           /\ transactions[i].category = None
           /\ transactions[i].amount < 0
           /\ transactions[j].category = "F"
           /\ transactions[j].amount > 0
    /\ aggregations.by_category["Uncategorized"].total > 0

(* The non-null balances of the transactions inside the 30-day window *)
Observations ==
    LET cutoff == (IF as_of # NoDate THEN as_of ELSE now) - 30
        seen == SelectSeq(transactions,
                          LAMBDA tx : tx.timestamp >= cutoff /\ tx.balance_after # NoBalance)
    IN  [i \in 1 .. Len(seen) |-> seen[i].balance_after]

(* C17: with fewer than 4 balance observations in the window the trend is
   "unknown"; with 4 or more, first half of n div 2 observations with mean m1
   and second half with mean m2, the trend is "increasing" exactly when
   m2 - m1 > 5% of |m1|, "decreasing" exactly when m1 - m2 > 5% of |m1|, and
   "stable" otherwise, so equal means are "stable" whatever their sign.
   (m2 - m1 is Gain / (n1 * n2) and |m1| is |s1| / n1.) *)
TrendFollowsFivePercentRule ==
    pc = "extracted" =>
        LET n == Len(Observations)
            n1 == n \div 2
            n2 == n - n1
            s1 == Sum(SubSeq(Observations, 1, n1))
            s2 == Sum(SubSeq(Observations, n1 + 1, n))
            Gain == s2 * n1 - s1 * n2
            trend == balance_health.balance_trend
        IN  /\ n < 4 => trend = "unknown"
            /\ n >= 4 =>
                   /\ trend = "increasing" <=> 100 * Gain > 5 * Abs(s1) * n2
                   /\ trend = "decreasing" <=> 100 * (-Gain) > 5 * Abs(s1) * n2
                   /\ trend \in {"increasing", "decreasing", "stable"}
                   /\ Gain = 0 => trend = "stable"

-----------------------------------------------------------------------------
(* Properties of the stores *)

(* The stored transactions: the rows without their created_at *)
StoredTransactions(rows) ==
    {[id |-> r.id, user_id |-> r.user_id, timestamp |-> r.timestamp, amount |-> r.amount] :
        r \in Range(rows)}

(* After add_transactions(added): no two rows share an id, every id uploaded
   has the row of its last occurrence in the list, and the rows of the other
   ids are as they were *)
UpsertStep(before, added, after) ==
    /\ \A i, j \in 1 .. Len(after) : i # j => after[i].id # after[j].id
    /\ \A k \in 1 .. Len(added) :
           Truthy(added[k].id) =>
               LET last == CHOOSE l \in k .. Len(added) :
                               /\ added[l].id = added[k].id
                               /\ \A m \in l + 1 .. Len(added) : added[m].id # added[k].id
               IN  [id |-> added[last].id, user_id |-> added[last].user_id,
                    timestamp |-> IsoFormat(added[last].timestamp),
                    amount |-> added[last].amount] \in StoredTransactions(after)
    /\ \A r \in Range(before) :
           (\A k \in 1 .. Len(added) : added[k].id # r.id) => r \in Range(after)

(* C18: add_transactions is an upsert by id: after every call the table has at
   most one row per id, each uploaded id carries the values of its latest
   upload, other rows are untouched; and a call with the same list as the call
   before leaves the set of stored transactions as it was. *)
UpsertById ==
    [][/\ UpsertStep(tx_rows, last_added', tx_rows')
       /\ last_added' = last_added
              => StoredTransactions(tx_rows') = StoredTransactions(tx_rows)]_vars

(* C18, amended: the same, the second half for lists in which every
   transaction carries an id. *)
UpsertByIdWhenIdsGiven ==
    [][/\ UpsertStep(tx_rows, last_added', tx_rows')
       /\ (/\ last_added' = last_added
           /\ \A k \in 1 .. Len(last_added) : Truthy(last_added[k].id))
              => StoredTransactions(tx_rows') = StoredTransactions(tx_rows)]_vars

(* the id "a" was uploaded twice in one list with different amounts, next to a
   row that got a uuid, and its row carries the later amount *)
UpsertWitness ==
    /\ Len(last_added) = 2
    /\ last_added[1].id = "a"
    /\ last_added[2].id = "a"
    /\ last_added[1].amount # last_added[2].amount
    /\ Len(tx_rows) = 2
    /\ \E i, j \in 1 .. Len(tx_rows) :
           /\ tx_rows[i].id = "a"
           /\ tx_rows[i].amount = last_added[2].amount
           /\ tx_rows[j].id = Uuid(1)

(* C19: for every user and type, get_latest_summary returns None when no
   save_summary was made for that user and type, and otherwise the judge
   output of the last such call, whatever was saved for other users or types
   before, between or after. *)
LatestWins ==
    \A user_id \in Users, summary_type \in Horizons :
        LET mine == {k \in 1 .. Len(saves) :
                        /\ saves[k].user_id = user_id
                        /\ saves[k].summary_type = summary_type}
            latest == get_latest_summary(summary_rows, user_id, summary_type)
        IN  IF mine = {} THEN latest = None
            ELSE latest = saves[CHOOSE k \in mine : \A l \in mine : l <= k].judge_output

(* two saves for one user and type with different outputs at the same clock
   reading, then a save for another user *)
LatestWinsWitness ==
    /\ Len(saves) = 3
    /\ saves[1].user_id = saves[2].user_id
    /\ saves[1].summary_type = saves[2].summary_type
    /\ saves[1].judge_output # saves[2].judge_output
    /\ summary_rows[1].created_at = summary_rows[2].created_at
    /\ saves[3].user_id # saves[1].user_id
    /\ saves[3].judge_output = saves[1].judge_output

(* C20: every parsing path of parse_timestamp yields a timezone-aware       *)
(* instant: once the call has finished it has either raised ValueError or  *)
(* returned a datetime that has a timezone.                                *)
EveryPathTimezoneAware ==
    pc = "parsed" => IsException(ts_result) \/ ts_result.tzinfo # None

-----------------------------------------------------------------------------
(* Properties of the uploads *)

(* a row of the file that is a transaction: all four fields, an ISO date, a
   number, a description *)
WellFormed(row) ==
    /\ Len(row) = 4
    /\ row[1] = <<"2024-01-02">>
    /\ row[2] \in {<<"5">>, <<"-20">>}
    /\ row[4] # << >>

(* C21: an upload stores exactly the valid rows of its file and reports their
   number, skipping each malformed row; when no row is valid it answers 400
   and the table transactions is as it was. *)
MalformedRowsSkipped ==
    [][upload_body' # << >> =>
        LET valid == SelectSeq(upload_body'.rows, WellFormed)
        IN  IF valid = << >>
            THEN upload_response'.status = 400 /\ tx_rows' = tx_rows
            ELSE /\ upload_response' = [status |-> 200, transaction_count |-> Len(valid)]
                 /\ Len(tx_rows') = Len(tx_rows) + Len(valid)
                 /\ \A k \in 1 .. Len(valid) :
                        LET row == tx_rows'[Len(tx_rows) + k]
                        IN  /\ row.user_id = upload_body'.user_id
                            /\ row.timestamp = IsoFormat(2)
                            /\ row.amount = Float[valid[k][2]]]_vars

(* the ids that occur in the export of the request, and the rows stored for
   its user *)
ExportIds ==
    {TxId(ob_tx) : ob_tx \in Range(Flatten(upload_body.statements))} \ {None}

StoredFor(user_id) == {i \in 1 .. Len(tx_rows) : tx_rows[i].user_id = user_id}

(* C22: after an Open Banking upload for a user without prior transactions,
   the number of stored transactions of the user and the reported
   transaction_count both equal the number of distinct transaction ids of the
   export. *)
StoredOncePerId ==
    upload_response # << >> =>
        /\ Cardinality(StoredFor(upload_body.user_id)) = Cardinality(ExportIds)
        /\ upload_response.transaction_count = Cardinality(ExportIds)

(* C22, amended: the same for an export in which every transaction carries an
   id; each transaction without id is stored as well. *)
StoredOncePerIdWhenIdsGiven ==
    upload_response # << >> =>
        LET ob_txs == Flatten(upload_body.statements)
            without == {i \in 1 .. Len(ob_txs) : ~Truthy(TxId(ob_txs[i]))}
        IN  /\ Cardinality(StoredFor(upload_body.user_id))
                   = Cardinality(ExportIds) + Cardinality(without)
            /\ upload_response.transaction_count
                   = Cardinality(ExportIds) + Cardinality(without)
            /\ \A id \in ExportIds :
                   Cardinality({i \in StoredFor(upload_body.user_id) :
                                    tx_rows[i].id = id}) = 1

(* the id "a" occurs in two statements of the export, once as transaction_id
   and once as provider_transaction_id, and is stored once *)
StoredOnceWitness ==
    /\ upload_response # << >>
    /\ Len(upload_body.statements) = 2
    /\ upload_body.statements[1][1].transaction_id = "a"
    /\ upload_body.statements[2][1].provider_transaction_id = "a"
    /\ ~Truthy(upload_body.statements[2][1].transaction_id)
    /\ upload_response.transaction_count = 1
    /\ Cardinality(StoredFor(upload_body.user_id)) = 1

-----------------------------------------------------------------------------
(* Properties of the passes of _enforce_budget and of the pools of sample() *)

(* the part of the result that came from the candidates of pass t, in the order
   of admission *)
AdmittedOf(t) == SelectSeq(result, LAMBDA r : r \in Range(priority[t]))

(* C23: during and after _enforce_budget the admitted transactions of every
   pass are a prefix of that pass's candidates in their chronological order:
   nothing after a candidate that did not fit is admitted in the same pass *)
NoSkippingInPass ==
    pc \in {"enforce", "done"} =>
        \A t \in 1 .. 4 :
            \E n \in 0 .. Len(priority[t]) : AdmittedOf(t) = SubSeq(priority[t], 1, n)

(* a returned call in which the first candidate of a pass did not fit while the
   candidate after it, smaller, would have fitted in its place *)
NoSkippingWitness ==
    /\ Returned
    /\ \E t \in 1 .. 4 :
           /\ Len(priority[t]) >= 2
           /\ ~would_fit(<< >>, priority[t][1])
           /\ would_fit(<< >>, priority[t][2])
           /\ priority[t][2] \notin Range(result)

(* the pools in the order in which the loops of sample() go through them *)
PoolsInOrder == recent \o top_x_txs \o stratified

(* the first transaction with identity key k that the loops meet *)
FirstMet(k) ==
    PoolsInOrder[CHOOSE i \in DOMAIN PoolsInOrder :
                     /\ TxKey(PoolsInOrder[i]) = k
                     /\ \A j \in 1 .. (i - 1) : TxKey(PoolsInOrder[j]) # k]

(* C24: the union built by sample() and the returned sequence never hold two
   entries with the same identity key (the id, else the object), and the entry
   kept for a key is the first one met in the order Recent, Top-X, Stratified *)
FirstSeenWins ==
    pc \in {"enforce", "done"} =>
        /\ \A i, j \in DOMAIN sampled_list :
               i # j => TxKey(sampled_list[i]) # TxKey(sampled_list[j])
        /\ \A i, j \in DOMAIN result : i # j => TxKey(result[i]) # TxKey(result[j])
        /\ \A k \in DOMAIN sampled_list : sampled_list[k] = FirstMet(TxKey(sampled_list[k]))
        /\ \A k \in DOMAIN result : result[k] = FirstMet(TxKey(result[k]))
        /\ KeySet(sampled_list) = KeySet(PoolsInOrder)

(* a returned call on two transactions with the same id, one only in the Recent
   pool and the other in the Top-X pool: the recent one is returned *)
FirstSeenWitness ==
    /\ Returned
    /\ Len(transactions) = 2
    /\ TxKey(1) = TxKey(2)
    /\ \E r \in {1, 2} :
           /\ recent = <<r>>
           /\ top_x_txs = <<3 - r>>
           /\ result = <<r>>

(* slot i is before slot j in a stable sort by descending |amount| *)
LargerFirst(i, j) ==
    \/ Abs(transactions[i].amount) > Abs(transactions[j].amount)
    \/ (Abs(transactions[i].amount) = Abs(transactions[j].amount) /\ i < j)

(* C25: the Top-X pool has min(top_x, len(input)) members, they are the ones a
   stable sort of the whole input by descending |amount| puts first (of equal
   |amount| the earlier of the input), and they are in that order *)
TopXIsStableSortPrefix ==
    pc \in {"enforce", "done"} =>
        /\ Len(top_x_txs) = Min(top_x, Len(transactions))
        /\ \A i, j \in DOMAIN top_x_txs : i < j => LargerFirst(top_x_txs[i], top_x_txs[j])
        /\ \A r \in Range(top_x_txs) :
               \A o \in DOMAIN transactions \ Range(top_x_txs) : LargerFirst(r, o)

(* a call on two transactions of equal |amount| with top_x = 1: the pool is the
   first of the input *)
TopXTieWitness ==
    /\ Returned
    /\ Len(transactions) = 2
    /\ Abs(transactions[1].amount) = Abs(transactions[2].amount)
    /\ top_x = 1
    /\ top_x_txs = <<1>>

(* the returned transactions that are members of a pool: the same objects *)
MembersOf(pool) == {k \in DOMAIN result : result[k] \in Range(pool)}

(* C26: top_x_count and stratified_count are the numbers of returned
   transactions that are members of the Top-X pool and of the Stratified pool,
   a member being the same transaction and not one with equal field values *)
StatsCountPoolMembers ==
    (Returned /\ transactions # << >>) =>
        /\ stats.top_x_count = Cardinality(MembersOf(top_x_txs))
        /\ stats.stratified_count = Cardinality(MembersOf(stratified))

-----------------------------------------------------------------------------
(* Representation of the category groups in _stratified_sample *)

(* the category groups of the input, the uncategorized (None) being one *)
CategoryGroups == {transactions[i].category : i \in DOMAIN transactions}

(* C27: for an input of more than n transactions in at most n category groups,
   _stratified_sample(txs, n) returns at least one transaction of every
   category group of the input *)
EveryGroupRepresented ==
    (/\ pc = "stratified"
     /\ Len(transactions) > stratified_n
     /\ Cardinality(CategoryGroups) <= stratified_n)
    => \A c \in CategoryGroups :
           \E k \in DOMAIN stratified : transactions[stratified[k]].category = c

-----------------------------------------------------------------------------
(* The small input *)

(* C28: an input of at most stratified_n transactions with pairwise distinct
   identity keys, under a budget of at least the encoded size of the whole
   input, is returned whole, every transaction exactly once, whatever top_x
   and the recency cutoff are *)
SmallInputReturnedWhole ==
    (/\ Returned
     /\ Len(transactions) <= stratified_n
     /\ DistinctKeys
     /\ Len(to_compact_string(AllRefs)) <= target_char_budget)
    => /\ Len(result) = Len(transactions)
       /\ Range(result) = Range(AllRefs)
       /\ stats.sampled_count = stats.total_transactions

(* two different transactions under a budget of exactly their encoded size,
   neither recent nor in the Top-X pool *)
SmallInputWitness ==
    /\ Returned
    /\ Len(transactions) = 2
    /\ Len(transactions) <= stratified_n
    /\ DistinctKeys
    /\ Len(to_compact_string(AllRefs)) = target_char_budget
    /\ top_x = 0
    /\ recent = << >>
    /\ Len(result) = 2

-----------------------------------------------------------------------------
(* The order of the balance observations *)

(* The non-null balances of the window in ascending order of timestamp,
   observations of one timestamp in the order of the list *)
ObservationsByTime ==
    LET cutoff == (IF as_of # NoDate THEN as_of ELSE now) - 30
        seen == SelectSeq(transactions,
                          LAMBDA tx : tx.timestamp >= cutoff /\ tx.balance_after # NoBalance)
        slots == SortBy([i \in 1 .. Len(seen) |-> i],
                        [i \in 1 .. Len(seen) |-> seen[i].timestamp])
    IN  [k \in 1 .. Len(seen) |-> seen[slots[k]].balance_after]

(* C29: whatever the order of the list handed to extract_balance_health,
   balance_trend is the trend of the balances taken in ascending order of
   timestamp *)
TrendInTimestampOrder ==
    pc = "extracted" => balance_health.balance_trend = Trend(ObservationsByTime)

-----------------------------------------------------------------------------
(* Isolation of the users of the transaction store *)

(* C30: a call of add_transactions with transactions of one user only leaves
   get_transactions of every other user as it was, also when an uploaded id is
   the id of a row of another user *)
PerUserIsolation ==
    [][\A u \in Users :
           (\A k \in 1 .. Len(last_added') : last_added'[k].user_id # u)
               => get_transactions(tx_rows', u) = get_transactions(tx_rows, u)]_vars

====
